---- MODULE Spec2Model ----
(***************************************************************************)
(* The prediction service of services/frog-api/main.py: the process-wide   *)
(* artifacts loaded at startup, the two prediction endpoints, the detached *)
(* persistence task of an audio prediction, and the storage endpoints.     *)
(*                                                                         *)
(* Scheduling.  predict_from_audio, save_prediction_to_supabase,           *)
(* stream_audio and submit_feedback are coroutines of one asyncio event    *)
(* loop: a coroutine keeps the loop from one suspension point to the next. *)
(* The only suspension point of predict_from_audio is `await file.read()`; *)
(* save_prediction_to_supabase has none.  The variable `loop` names the    *)
(* coroutine that holds the loop.  predict and get_signed_url are plain    *)
(* functions, run on worker threads, and do not need the loop.             *)
(***************************************************************************)
EXTENDS Integers, Sequences, FiniteSets, TLC

\* ---------------------------------------------------------------- bounds
NReq == 2          \* requests of one run, to any endpoint
MaxClock == 1      \* seconds of wall clock that a run spans (0..MaxClock)
MaxClasses == 4    \* classes of the loaded classifier, at most
MaxSamples == 5    \* samples of the longest enumerated buffer
TARGET_SR == 2     \* samples per second (22050 in the source), scaled down
MaxPeakSamples == 3    \* samples of a buffer given to peak_normalize or to_mono
MaxAxis == 9           \* rows and columns of a two-dimensional buffer
TARGET_DURATION == 4   \* half seconds (10.0 s in the source), scaled down

\* ------------------------------------------------------ program constants
SignedExpires == 900      \* signed_expires, and get_signed_url's default
NFeatures == 26           \* features_required of the trained model
PEAK_LEVEL == 98          \* 0.98, in hundredths
PRE_EMPHASIS_COEF == 97   \* 0.97, in hundredths

\* --------------------------------------------------------------- options
\* Python's None and a present value: a set of at most one element.
None == {}
Some(x) == {x}
The(s) == CHOOSE x \in s : TRUE

Min(a, b) == IF a <= b THEN a ELSE b

Requests == 1..NReq

\* ------------------------------------------------------- uploaded names
\* file.filename of an upload, as os.path.splitext sees it: stem and
\* extension.  The extension keeps the case the client gave it.
UploadNames ==
    { [stem |-> "call", ext |-> ".WAV"],
      [stem |-> "scan", ext |-> ".bmp"] }

\* The names one request is followed with: every listed extension, other
\* spellings of some, and names of other kinds or with no extension.
AllUploadNames ==
    { [stem |-> "call", ext |-> e] :
        e \in {".wav", ".mp3", ".flac", ".ogg", ".m4a", ".aac", ".wma",
               ".WAV", ".Wav", ".MP3", ".FLAC",
               ".bmp", ".BMP", ".mpeg", ".txt", ""} }

\* str.lower() on the extensions above.
Lower(e) ==
    CASE e \in {".WAV", ".Wav"} -> ".wav"
      [] e = ".MP3" -> ".mp3"
      [] e = ".FLAC" -> ".flac"
      [] e = ".BMP" -> ".bmp"
      [] OTHER -> e

AllowedExtensions == {".wav", ".mp3", ".flac", ".ogg", ".m4a", ".aac", ".wma"}

\* An extension compared as the client spelled it.
FileExtAsSpelled(name) == name.ext

\* file_ext of predict_from_audio: the lower-cased extension.
FileExt(name) == Lower(name.ext)

\* ------------------------------------------------------- preprocessing
\* A decoded buffer: ndim is y.ndim and ch its rows, one row of samples for a
\* one-dimensional buffer, one row per channel for librosa's (channels,
\* samples).  Samples are integers; durations are in half seconds.
Buffer(ndim, ch) == [ndim |-> ndim, ch |-> ch]
Levels == {-1, 0, 1}
Rows(n) == UNION {[1..k -> Levels] : k \in 0..n}
Mono(samples) == Buffer(1, <<samples>>)

RECURSIVE SumSeq(_)
SumSeq(s) == IF s = <<>> THEN 0 ELSE s[1] + SumSeq(Tail(s))
Abs(x) == IF x < 0 THEN -x ELSE x
\* np.mean, rounded down to a whole sample value.
Mean(s) == SumSeq(s) \div Len(s)

\* A collapse that takes every two-dimensional buffer as (channels, samples).
ToMonoChannelsFirst(y) ==
    IF y.ndim = 1 THEN y.ch[1]
    ELSE [i \in 1..Len(y.ch[1]) |-> Mean([c \in 1..Len(y.ch) |-> y.ch[c][i]])]

\* to_mono
ToMono(y) ==
    IF y.ndim = 1 THEN y.ch[1]
    ELSE IF Len(y.ch) <= 8 /\ Len(y.ch[1]) > 8
    THEN [i \in 1..Len(y.ch[1]) |-> Mean([c \in 1..Len(y.ch) |-> y.ch[c][i]])]
    ELSE [c \in 1..Len(y.ch) |-> Mean(y.ch[c])]

\* What librosa.effects.trim may return: a slice y[start:end], empty when no
\* frame counts as sound.
Trims(y) == {SubSeq(y, a, b) : a \in 1..(Len(y) + 1), b \in 0..Len(y)}

\* trim_silence, given what the trim returned: yt if yt.size > 0 else y
TrimSilence(y, yt) == IF Len(yt) > 0 THEN yt ELSE y

\* int(target_duration * sr)
WindowSamples(target_duration, sr) == (target_duration * sr) \div 2

\* np.sqrt(np.mean(window**2)) of windows of one length, compared by the sum
\* of squares it is monotone in.
Rms(window) == SumSeq([i \in 1..Len(window) |-> window[i] * window[i]])

\* A scan in which a later window of equal energy replaces the best.
BetterOrEqual(rms, best_rms) == rms >= best_rms

\* if rms > best_rms
Better(rms, best_rms) == rms > best_rms

\* for start in range(0, len(y) - window_samples + 1, hop): best_start
RECURSIVE Scan(_, _, _, _, _, _)
Scan(y, window_samples, hop, start, best_rms, best_start) ==
    IF start > Len(y) - window_samples THEN best_start
    ELSE LET rms == Rms(SubSeq(y, start + 1, start + window_samples))
         IN  IF Better(rms, best_rms)
             THEN Scan(y, window_samples, hop, start + hop, rms, start)
             ELSE Scan(y, window_samples, hop, start + hop, best_rms, best_start)

\* A selector that pads a short buffer to the window length itself.
FindBest10sWindowPadding(y, sr, target_duration) ==
    LET window_samples == WindowSamples(target_duration, sr) IN
    IF Len(y) <= window_samples
    THEN [i \in 1..window_samples |-> IF i <= Len(y) THEN y[i] ELSE 0]
    ELSE LET best_start == Scan(y, window_samples, sr, 0, -1, 0)
         IN  SubSeq(y, best_start + 1, best_start + window_samples)

\* find_best_10s_window
FindBest10sWindow(y, sr, target_duration) ==
    LET window_samples == WindowSamples(target_duration, sr) IN
    IF Len(y) <= window_samples THEN y
    ELSE LET best_start == Scan(y, window_samples, sr, 0, -1, 0)
         IN  SubSeq(y, best_start + 1, best_start + window_samples)

\* librosa.resample: ceil(len * target_sr / orig_sr) samples, each taken from
\* the input sample at its time (a zero input gives a zero output).
Resample(y, orig_sr, target_sr) ==
    [i \in 1..((Len(y) * target_sr + orig_sr - 1) \div orig_sr) |->
        y[((i - 1) * orig_sr) \div target_sr + 1]]

\* A duration stage that only cuts.
StandardizeDurationCutOnly(y, sr, target_seconds) ==
    LET target_len == WindowSamples(target_seconds, sr) IN
    IF Len(y) > target_len THEN SubSeq(y, 1, target_len) ELSE y

\* A duration stage that pads in front of the samples.
StandardizeDurationPadLeft(y, sr, target_seconds) ==
    LET target_len == WindowSamples(target_seconds, sr) IN
    IF Len(y) > target_len THEN SubSeq(y, 1, target_len)
    ELSE IF Len(y) < target_len
    THEN [i \in 1..target_len |->
            IF i <= target_len - Len(y) THEN 0 ELSE y[i - (target_len - Len(y))]]
    ELSE y

\* standardize_duration
StandardizeDuration(y, sr, target_seconds) ==
    LET target_len == WindowSamples(target_seconds, sr) IN
    IF Len(y) > target_len THEN SubSeq(y, 1, target_len)
    ELSE IF Len(y) < target_len
    THEN [i \in 1..target_len |-> IF i <= Len(y) THEN y[i] ELSE 0]
    ELSE y

\* librosa.effects.preemphasis: y[n] - coef * y[n-1], in hundredths; the
\* sample before the first is extrapolated from the first two.
Preemphasis(y, coef) ==
    [i \in 1..Len(y) |->
        100 * y[i] - coef * (IF i > 1 THEN y[i - 1]
                             ELSE IF Len(y) > 1 THEN 2 * y[1] - y[2] ELSE y[1])]

RECURSIVE MaxAbs(_)
MaxAbs(s) ==
    IF s = <<>> THEN 0
    ELSE LET rest == MaxAbs(Tail(s)) IN IF Abs(s[1]) > rest THEN Abs(s[1]) ELSE rest

\* np.max(y), without np.abs.
RECURSIVE MaxSigned(_)
MaxSigned(s) ==
    IF Len(s) = 1 THEN s[1]
    ELSE LET rest == MaxSigned(Tail(s)) IN IF s[1] > rest THEN s[1] ELSE rest

\* A normalizer that scales by the largest sample instead of the largest
\* magnitude.
PeakNormalizeBySignedMax(y, peak) ==
    LET max_val == IF Len(y) > 0 THEN MaxSigned(y) ELSE 0 IN
    IF max_val > 0 THEN [i \in 1..Len(y) |-> (y[i] * peak) \div max_val] ELSE y

\* peak_normalize: (y / max_val) * peak, in hundredths of full scale.
PeakNormalize(y, peak) ==
    LET max_val == IF Len(y) > 0 THEN MaxAbs(y) ELSE 0 IN
    IF max_val > 0 THEN [i \in 1..Len(y) |-> (y[i] * peak) \div max_val] ELSE y

\* normalize_audio(y, sr, apply_preemphasis=True), given what the trim
\* returned: the buffer and the sample rate.
NormalizeAudio(y, sr, yt) ==
    LET trimmed == TrimSilence(ToMono(y), yt)
        window == FindBest10sWindow(trimmed, sr, TARGET_DURATION)
        resampled == IF sr # TARGET_SR THEN Resample(window, sr, TARGET_SR) ELSE window
        timed == StandardizeDuration(resampled, TARGET_SR, TARGET_DURATION)
    IN  [y |-> PeakNormalize(Preemphasis(timed, PRE_EMPHASIS_COEF), PEAK_LEVEL),
         sr |-> TARGET_SR]

\* ------------------------------------------------------- feature names
\* A feature name f"{base}{i}_{stat}" as <<base, i, stat>> (i = 0: no index).
\* for i in [0, 2, 3, 4, 6, 7, 11]
MfccStdIndices == <<0, 2, 3, 4, 6, 7, 11>>

\* f'mfcc{i+1}_mean'
MeanKey(i) == <<"mfcc", i + 1, "mean">>

\* A key named by the 0-based index of the coefficient.
StdKeyUnshifted(i) == <<"mfcc", i, "std">>

\* f'mfcc{i+1}_std'
StdKey(i) == <<"mfcc", i + 1, "std">>

\* The keys extract_audio_features assigns, in the order of its statements.
ExtractedNames ==
    << <<"centroid", 0, "mean">>, <<"bandwidth", 0, "mean">>, <<"rolloff", 0, "mean">> >>
    \o [i \in 1..13 |-> MeanKey(i - 1)]
    \o [i \in 1..Len(MfccStdIndices) |-> StdKey(MfccStdIndices[i])]
    \o << <<"zcr", 0, "mean">>, <<"rms", 0, "mean">>, <<"rms", 0, "std">> >>

SeqRange(s) == {s[i] : i \in 1..Len(s)}

\* features[key] = value, statement after statement: a key assigned twice
\* keeps one entry.  The value of a key is abstracted to the number of the
\* statement that computed it.
RECURSIVE AssignAll(_, _, _)
AssignAll(features, keys, i) ==
    IF i > Len(keys) THEN features
    ELSE AssignAll([k \in DOMAIN features \cup {keys[i]} |->
                        IF k = keys[i] THEN i ELSE features[k]],
                   keys, i + 1)

\* The map extract_audio_features returns.
ExtractAudioFeatures == AssignAll([k \in {} |-> 0], ExtractedNames, 1)

\* The feature order PredictionRequest documents (that of
\* feature_columns.json as the training left it).
DocumentedNames ==
    << <<"centroid", 0, "mean">>, <<"bandwidth", 0, "mean">>, <<"rolloff", 0, "mean">>,
       <<"mfcc", 1, "mean">>, <<"mfcc", 2, "mean">>, <<"mfcc", 3, "mean">>,
       <<"mfcc", 4, "mean">>, <<"mfcc", 5, "mean">>, <<"mfcc", 6, "mean">>,
       <<"mfcc", 7, "mean">>, <<"mfcc", 8, "mean">>, <<"mfcc", 9, "mean">>,
       <<"mfcc", 10, "mean">>, <<"mfcc", 11, "mean">>, <<"mfcc", 12, "mean">>,
       <<"mfcc", 13, "mean">>,
       <<"mfcc", 1, "std">>, <<"mfcc", 3, "std">>, <<"mfcc", 4, "std">>,
       <<"mfcc", 5, "std">>, <<"mfcc", 7, "std">>, <<"mfcc", 8, "std">>,
       <<"mfcc", 12, "std">>,
       <<"zcr", 0, "mean">>, <<"rms", 0, "mean">>, <<"rms", 0, "std">> >>

\* feature_columns.json: the documented order, and two files that drifted
\* from the extractor.
CanonicalNames == DocumentedNames
DriftedNames == [CanonicalNames EXCEPT ![17] = <<"mfcc", 2, "std">>]
ShortNames == SubSeq(CanonicalNames, 1, Len(CanonicalNames) - 1)
FeatureFiles == {CanonicalNames, DriftedNames, ShortNames}

\* The same names listed in another order than the extractor computes them.
ReorderedNames == [i \in 1..Len(CanonicalNames) |->
                      CanonicalNames[Len(CanonicalNames) + 1 - i]]
AllFeatureFiles == FeatureFiles \cup {ReorderedNames}

\* An array that takes the values in the order they were extracted.
FeaturesInExtractionOrder(features, names) ==
    Some([i \in 1..Len(names) |-> features[ExtractedNames[i]]])

\* features_dict_to_array: the values in the order of feature_names; None
\* stands for the KeyError of a name the map does not hold.
FeaturesDictToArray(features, names) ==
    IF \A i \in 1..Len(names) : names[i] \in DOMAIN features
    THEN Some([i \in 1..Len(names) |-> features[names[i]]])
    ELSE None

\* ------------------------------------------------------------ the model
\* A class label is a string or a numpy integer (a LabelEncoder's classes).
Label(kind, i) == [kind |-> kind, v |-> i]
\* str(label)
Str(l) == [kind |-> "str", v |-> l.v]
\* pred[0] if isinstance(pred[0], (str, int)) else str(pred[0])
PredictionValue(l) == IF l.kind \in {"str", "int"} THEN l ELSE Str(l)

\* Probabilities are in thousandths.
ProbLevels == {0, 250, 496, 500, 504, 1000}

\* The probability vectors of a classifier of n classes.
ProbaVectors(n) == {p \in [1..n -> ProbLevels] : SumSeq(p) = 1000}

\* f"{x:.2f}": a probability rounded to hundredths.
Format2(p) == (p + 5) \div 10

\* np.argsort(proba): an ascending order of the indices; the default sort is
\* not stable, so equal probabilities may come in any order.
ArgsortResults(p) ==
    {o \in Permutations(1..Len(p)) :
        \A i \in 1..(Len(p) - 1) : p[o[i]] <= p[o[i + 1]]}

\* The first three of the ascending order, without the reversal.
TopThreeIndicesAscending(o) == [i \in 1..Min(3, Len(o)) |-> o[i]]

\* np.argsort(proba)[::-1][:3]
TopThreeIndices(o) == [i \in 1..Min(3, Len(o)) |-> o[Len(o) + 1 - i]]

\* top_3 as both endpoints build it.
TopThree(classes, p, o) ==
    [i \in 1..Min(3, Len(o)) |->
        [species |-> Str(classes[TopThreeIndices(o)[i]]),
         confidence |-> p[TopThreeIndices(o)[i]]]]


\* A classifier as the service sees it: with or without predict_proba,
\* classes_ and n_features_in_.  The model is a function of its input and the
\* requests of a run carry the same recording: model.predict answers
\* classes_[predIdx] and model.predict_proba answers proba.
Classifier(hasProba, hasClasses, nFeaturesIn, kind, predIdx, proba) ==
    [hasProba |-> hasProba, hasClasses |-> hasClasses, nFeaturesIn |-> nFeaturesIn,
     kind |-> kind, n |-> Len(proba), predIdx |-> predIdx, proba |-> proba]

\* The calibrated random forest the service is deployed with, on a recording
\* it is nearly undecided about; the same without predict_proba and without
\* classes_; and the same without n_features_in_.
TrainedModel == Classifier(TRUE, TRUE, Some(NFeatures), "str", 2, <<496, 504, 0>>)
ServiceModels ==
    { TrainedModel,
      [TrainedModel EXCEPT !.hasProba = FALSE],
      [TrainedModel EXCEPT !.hasClasses = FALSE] }
DegradedModels == ServiceModels \cup {[TrainedModel EXCEPT !.nFeaturesIn = None]}

\* Every classifier of up to MaxClasses classes and every probability vector
\* it may answer.
Models ==
    UNION { { Classifier(hp, hc, Some(NFeatures), kind, 1, p) :
                hp \in BOOLEAN, hc \in BOOLEAN, kind \in {"str", "npint"},
                p \in ProbaVectors(n) } : n \in 1..MaxClasses }

\* model.classes_
Classes(m) == [i \in 1..m.n |-> Label(m.kind, i)]

\* ------------------------------------------------------------ responses
Detail(msg, args) == [msg |-> msg, args |-> args]

NoResponse ==
    [status |-> 0, detail |-> Detail("", <<>>), prediction |-> None,
     top_3 |-> None, probabilities |-> None, filename |-> None,
     signed_url |-> None, signed_url_expires_in |-> None, media |-> None]

\* raise HTTPException(status_code, detail): an error response has no body
\* field of a prediction.
HTTPException(status, detail) ==
    [NoResponse EXCEPT !.status = status, !.detail = detail]

\* PredictionResponse(...), sent with status 200; an argument is None or Some.
PredictionResponse(prediction, top_3, probabilities, filename, signed_url, expires) ==
    [status |-> 200, detail |-> Detail("", <<>>), prediction |-> prediction,
     top_3 |-> top_3, probabilities |-> probabilities, filename |-> filename,
     signed_url |-> signed_url, signed_url_expires_in |-> expires,
     media |-> None]

\* ---------------------------------------------------------------- state
VARIABLES
    phase,          \* "import" (module loaded), "serving", "failed" (startup raised)
    SAVE_UPLOADS,   \* SAVE_AUDIO_UPLOADS == "true", read at import
    environ,        \* os.environ: whether SUPABASE_URL and SUPABASE_KEY are set
    model,          \* the globals load_artifacts sets ...
    scaler,
    feature_names,
    supabase,       \* ... and the storage client, None at import
    clock,          \* datetime.utcnow(), in whole seconds
    loop,           \* the coroutine that holds the event loop
    endpoint,       \* endpoint[r]: the handler request r is routed to
    pc,             \* pc[r]: where the handler of request r stands
    upload,         \* upload[r]: what request r carries: file.filename of an
                    \* audio request, the FeedbackRequest of a feedback request
    locals,         \* locals[r]: the handler's local variables, with the calls it
                    \* has made so far (invoked), X.shape[1] (width) and the
                    \* name it asked a signed URL for (signed_for)
    resp,           \* resp[r]: the response the handler produced
    task,           \* task[r]: the persistence task of request r, with the
                    \* path it uploaded to and the metadata it inserted
    logs,           \* logs[r]: what was printed on behalf of request r
    calls,          \* calls[r]: the storage calls made on behalf of request r
    objects,        \* the object store: the keys that hold an upload
    records,        \* the rows of table "predictions"
    feedback,       \* the rows of table "feedback"
    dsp             \* a call of a preprocessing function on its own: the
                    \* function, its arguments, what it returned (out) and
                    \* what it returned when given its own result (again)

globals == <<model, scaler, feature_names, supabase>>
reqvars == <<endpoint, pc, upload, locals, resp, task, logs, calls>>
store == <<objects, records, feedback>>
vars == <<phase, SAVE_UPLOADS, environ, globals, clock, loop, reqvars, store, dsp>>

Free == <<"free", 0>>
Handler(r) == <<"handler", r>>
Task(r) == <<"task", r>>

NoLocals ==
    [invoked |-> {}, width |-> None,
     pred |-> None, prediction_value |-> None, top_3 |-> None, proba_list |-> None,
     storage_filename |-> None, signed_for |-> None, signed_url |-> None]

NoTask ==
    [st |-> "none", args |-> None, uploads |-> 0, inserts |-> 0,
     path |-> None, metadata |-> None,
     result |-> "pending", timestamp |-> None]

ServiceInit ==
    /\ phase = "import"
    /\ SAVE_UPLOADS \in BOOLEAN
    /\ model = None
    /\ scaler = None
    /\ feature_names = None
    /\ supabase = None
    /\ clock = 0
    /\ loop = Free
    /\ endpoint = [r \in Requests |-> "none"]
    /\ pc = [r \in Requests |-> "idle"]
    /\ upload = [r \in Requests |-> None]
    /\ locals = [r \in Requests |-> NoLocals]
    /\ resp = [r \in Requests |-> NoResponse]
    /\ task = [r \in Requests |-> NoTask]
    /\ logs = [r \in Requests |-> {}]
    /\ calls = [r \in Requests |-> {}]
    /\ objects = {}
    /\ records = {}
    /\ feedback = {}

\* No preprocessing call is followed on its own.
NoCall ==
    [fn |-> "none", pc |-> "none", y |-> Buffer(1, <<<<>>>>), sr |-> 0,
     target_duration |-> 0, out |-> None, again |-> None, features |-> None]

\* The process environment the service is started in.
Environs == [SUPABASE_URL : BOOLEAN, SUPABASE_KEY : BOOLEAN]

Init == ServiceInit /\ environ \in Environs /\ dsp = NoCall

\* ---------------------------------------------------------------- startup
\* What startup finds: the model file (None: joblib.load raises), the scaler
\* file (None: load raises), feature_columns.json (None: no such file), the
\* two credentials, and whether create_client returns (or raises).
Environment(models, scalers, files, flags) ==
    [model : models, scaler : scalers, features : files,
     url : flags, key : flags, created : flags]

\* The deployments concurrent requests are followed in: the scaler in place,
\* one classifier of ServiceModels or no loadable model, any state of
\* feature_columns.json and of the credentials.
ServiceEnvs ==
    Environment({None} \cup {Some(m) : m \in ServiceModels},
                {Some("scaler")},
                {None} \cup {Some(f) : f \in FeatureFiles},
                BOOLEAN)

\* The deployments one request is followed in: the complete deployment with
\* any classifier of Models, and any state of the artifacts and credentials
\* with a classifier of DegradedModels.
ModelEnvs ==
    Environment({Some(m) : m \in Models}, {Some("scaler")},
                {Some(CanonicalNames)}, {TRUE})
    \cup
    Environment({Some(m) : m \in DegradedModels},
                {None, Some("scaler")},
                {None} \cup {Some(f) : f \in AllFeatureFiles},
                BOOLEAN)

\* A startup that created the client whenever the credentials were there.
ClientWhenCredentials(e) ==
    IF e.url /\ e.key /\ e.created THEN Some("client") ELSE supabase

\* create_client is reached only with the flag set and both credentials
\* present, and it may raise.
ClientAfterStartup(e) ==
    IF SAVE_UPLOADS /\ e.url /\ e.key /\ e.created THEN Some("client") ELSE supabase

\* load_artifacts, the startup hook: runs once, before any request.
LoadArtifacts(envs) ==
    /\ phase = "import"
    /\ \E e \in envs :
         /\ e.url = environ.SUPABASE_URL
         /\ e.key = environ.SUPABASE_KEY
         /\ IF e.model = None
            THEN \* RuntimeError("Failed to load model"): the service does not start
                 /\ phase' = "failed"
                 /\ UNCHANGED globals
            ELSE /\ phase' = "serving"
                 /\ model' = e.model
                 /\ scaler' = e.scaler
                 /\ feature_names' = e.features
                 /\ supabase' = ClientAfterStartup(e)
    /\ UNCHANGED <<dsp, environ, SAVE_UPLOADS, clock, loop, reqvars, store>>

\* The wall clock passes a second.
Tick ==
    /\ phase = "serving"
    /\ clock < MaxClock
    /\ clock' = clock + 1
    /\ UNCHANGED <<dsp, environ, phase, SAVE_UPLOADS, globals, loop, reqvars, store>>


\* ------------------------------------------------------- /predict (sync)
\* A handler that skipped the dimension check.
DimensionUnchecked(m, width) == FALSE

\* expected_dim and X.shape[1] != expected_dim
DimensionMismatch(m, width) ==
    m.nFeaturesIn # None /\ width # The(m.nFeaturesIn)

\* top_3 of a probability vector: None without model.classes_.
TopThreeOf(m, o) ==
    IF m.hasClasses THEN Some(TopThree(Classes(m), m.proba, o)) ELSE None

\* The feature counts a client posts: the 26 of the model, and the 10 of
\* test_predict_wrong_dimensions.
FeatureCounts == {10, NFeatures}

\* A predict that refused to work without the feature-name list.
PredictReplyNeedingNames(m, width, scaled, predicted, o) ==
    IF feature_names = None
    THEN HTTPException(500, Detail("Feature names not loaded", <<>>))
    ELSE IF DimensionMismatch(m, width)
    THEN HTTPException(400, Detail("Expected features, got", <<The(m.nFeaturesIn), width>>))
    ELSE IF scaler # None /\ ~scaled
    THEN HTTPException(500, Detail("Internal Server Error", <<>>))
    ELSE IF ~predicted
    THEN HTTPException(500, Detail("Prediction failed", <<>>))
    ELSE PredictionResponse(
            Some(PredictionValue(Classes(m)[m.predIdx])),
            IF m.hasProba THEN TopThreeOf(m, o) ELSE None,
            IF m.hasProba THEN Some(m.proba) ELSE None,
            None, None, None)

\* predict: the reply for `width` features, given whether scaler.transform
\* and model.predict return (or raise) and what np.argsort answers.
PredictReply(m, width, scaled, predicted, o) ==
    IF DimensionMismatch(m, width)
    THEN HTTPException(400, Detail("Expected features, got", <<The(m.nFeaturesIn), width>>))
    ELSE IF scaler # None /\ ~scaled
    THEN HTTPException(500, Detail("Internal Server Error", <<>>))
    ELSE IF ~predicted
    THEN HTTPException(500, Detail("Prediction failed", <<>>))
    ELSE PredictionResponse(
            Some(PredictionValue(Classes(m)[m.predIdx])),
            IF m.hasProba THEN TopThreeOf(m, o) ELSE None,
            IF m.hasProba THEN Some(m.proba) ELSE None,
            None, None, None)

\* The calls predict makes on the way to that reply.
PredictInvoked(m, width, scaled) ==
    IF DimensionMismatch(m, width) THEN {}
    ELSE (IF scaler # None THEN {"transform"} ELSE {})
         \cup (IF scaler = None \/ scaled THEN {"predict"} ELSE {})

\* A handler without a suspension point answers request r in one step; what
\* becomes of the connection afterwards is followed for audio requests only.
Answer(r, ep, response) ==
    /\ endpoint' = [endpoint EXCEPT ![r] = ep]
    /\ resp' = [resp EXCEPT ![r] = response]
    /\ pc' = [pc EXCEPT ![r] = "sent"]

Predict(r) ==
    /\ phase = "serving"
    /\ pc[r] = "idle"
    /\ \E width \in FeatureCounts, scaled, predicted \in BOOLEAN,
          o \in ArgsortResults(The(model).proba) :
         LET m == The(model)
             reply == PredictReply(m, width, scaled, predicted, o)
         IN  /\ Answer(r, "predict", reply)
             /\ locals' = [locals EXCEPT
                    ![r].width = Some(width),
                    ![r].invoked = PredictInvoked(m, width, scaled),
                    ![r].pred =
                        IF reply.status = 200 \/ reply.detail.msg = "Prediction failed"
                        THEN (IF predicted THEN Some(Classes(m)[m.predIdx]) ELSE None)
                        ELSE None]
    /\ UNCHANGED <<dsp, environ, phase, SAVE_UPLOADS, globals, clock, loop, upload, task, logs,
                   calls, store>>

\* ------------------------------------------- /predict-audio (coroutine)
\* An error response ends the handler; it gives the loop back.
Fail(r, status, detail) ==
    /\ resp' = [resp EXCEPT ![r] = HTTPException(status, detail)]
    /\ pc' = [pc EXCEPT ![r] = "returned"]
    /\ loop' = Free

Goto(r, next) ==
    /\ pc' = [pc EXCEPT ![r] = next]
    /\ loop' = Handler(r)
    /\ UNCHANGED resp

\* The handler starts: the extension check, up to `await file.read()`.
Receive(r, names) ==
    /\ phase = "serving"
    /\ loop = Free
    /\ pc[r] = "idle"
    /\ endpoint' = [endpoint EXCEPT ![r] = "predict_from_audio"]
    /\ \E name \in names :
         /\ upload' = [upload EXCEPT ![r] = Some(name)]
         /\ IF FileExt(name) \notin AllowedExtensions
            THEN Fail(r, 400, Detail("Unsupported audio format",
                                     <<FileExt(name), AllowedExtensions>>))
            ELSE /\ pc' = [pc EXCEPT ![r] = "reading"]
                 /\ UNCHANGED <<resp, loop>>
    /\ UNCHANGED <<dsp, environ, phase, SAVE_UPLOADS, globals, clock, locals, task, logs, calls, store>>

\* file.read() completes and the handler takes the loop until it returns.
Resume(r) ==
    /\ loop = Free
    /\ pc[r] = "reading"
    /\ \E read \in BOOLEAN :
         IF read THEN Goto(r, "decode")
         ELSE Fail(r, 500, Detail("Unexpected error", <<>>))
    /\ locals' = [locals EXCEPT ![r].invoked = @ \cup {"read"}]
    /\ UNCHANGED <<dsp, environ, phase, SAVE_UPLOADS, globals, clock, endpoint, upload,
                   task, logs, calls, store>>

\* librosa.load
Decode(r) ==
    /\ loop = Handler(r)
    /\ pc[r] = "decode"
    /\ \E ok \in BOOLEAN :
         IF ok THEN Goto(r, "normalize")
         ELSE Fail(r, 400, Detail("Failed to load audio file", <<>>))
    /\ locals' = [locals EXCEPT ![r].invoked = @ \cup {"decode"}]
    /\ UNCHANGED <<dsp, environ, phase, SAVE_UPLOADS, globals, clock, endpoint, upload,
                   task, logs, calls, store>>

\* normalize_audio
Normalize(r) ==
    /\ loop = Handler(r)
    /\ pc[r] = "normalize"
    /\ \E ok \in BOOLEAN :
         IF ok THEN Goto(r, "extract")
         ELSE Fail(r, 500, Detail("Audio normalization failed", <<>>))
    /\ locals' = [locals EXCEPT ![r].invoked = @ \cup {"normalize"}]
    /\ UNCHANGED <<dsp, environ, phase, SAVE_UPLOADS, globals, clock, endpoint, upload,
                   task, logs, calls, store>>

\* extract_audio_features
Extract(r) ==
    /\ loop = Handler(r)
    /\ pc[r] = "extract"
    /\ \E ok \in BOOLEAN :
         IF ok THEN Goto(r, "order")
         ELSE Fail(r, 500, Detail("Feature extraction failed", <<>>))
    /\ locals' = [locals EXCEPT ![r].invoked = @ \cup {"extract"}]
    /\ UNCHANGED <<dsp, environ, phase, SAVE_UPLOADS, globals, clock, endpoint, upload,
                   task, logs, calls, store>>

\* The canonical reordering and the dimension check.
Order(r) ==
    /\ loop = Handler(r)
    /\ pc[r] = "order"
    /\ IF feature_names = None
       THEN Fail(r, 500, Detail("Feature names not loaded", <<>>))
       ELSE LET X == FeaturesDictToArray(ExtractAudioFeatures, The(feature_names)) IN
            IF X = None
            THEN Fail(r, 500, Detail("Feature ordering failed", <<>>))
            ELSE IF DimensionMismatch(The(model), Len(The(X)))
            THEN Fail(r, 500, Detail("Feature extraction produced, expected",
                                     <<Len(The(X)), The(The(model).nFeaturesIn)>>))
            ELSE Goto(r, "scale")
    /\ locals' = [locals EXCEPT ![r].width =
            IF feature_names = None THEN None
            ELSE LET X == FeaturesDictToArray(ExtractAudioFeatures, The(feature_names))
                 IN  IF X = None THEN None ELSE Some(Len(The(X)))]
    /\ UNCHANGED <<dsp, environ, phase, SAVE_UPLOADS, globals, clock, endpoint, upload,
                   task, logs, calls, store>>

\* scaler.transform, outside the inner try blocks: "Unexpected error".
Scale(r) ==
    /\ loop = Handler(r)
    /\ pc[r] = "scale"
    /\ \E ok \in BOOLEAN :
         IF scaler = None \/ ok THEN Goto(r, "predict")
         ELSE Fail(r, 500, Detail("Unexpected error", <<>>))
    /\ locals' = [locals EXCEPT ![r].invoked = @ \cup (IF scaler # None THEN {"transform"} ELSE {})]
    /\ UNCHANGED <<dsp, environ, phase, SAVE_UPLOADS, globals, clock, endpoint, upload,
                   task, logs, calls, store>>


\* The prediction block: model.predict, model.predict_proba (no fallback
\* here: a model without it raises), top_3, and top_3[0] read for the storage
\* name (TypeError on a top_3 of None).
PredictionComputed(m, predicted) == predicted /\ m.hasProba /\ m.hasClasses

\* f"{utcnow:%Y%m%d_%H%M%S}_{prediction_value}_{top_3[0]['confidence']:.2f}{file_ext}"
StorageFilename(now, prediction_value, top_3, file_ext) ==
    [stamp |-> now, prediction |-> Str(prediction_value),
     confidence |-> Format2(top_3[1].confidence), ext |-> file_ext]

PredictStep(r) ==
    /\ loop = Handler(r)
    /\ pc[r] = "predict"
    /\ \E predicted \in BOOLEAN, o \in ArgsortResults(The(model).proba) :
         LET m == The(model)
             pred == Classes(m)[m.predIdx]
             pv == PredictionValue(pred)
             top == TopThree(Classes(m), m.proba, o)
         IN  IF PredictionComputed(m, predicted)
             THEN /\ locals' = [locals EXCEPT ![r] =
                        [invoked |-> @.invoked \cup {"predict"}, width |-> @.width,
                         pred |-> Some(pred), prediction_value |-> Some(pv),
                         top_3 |-> Some(top), proba_list |-> Some(m.proba),
                         storage_filename |->
                            Some(StorageFilename(clock, pv, top, FileExt(The(upload[r])))),
                         signed_for |-> None, signed_url |-> None]]
                  /\ Goto(r, "persist")
             ELSE /\ locals' = [locals EXCEPT
                        ![r].invoked = @ \cup {"predict"},
                        ![r].pred = IF predicted THEN Some(pred) ELSE None]
                  /\ Fail(r, 500, Detail("Prediction failed", <<>>))
    /\ UNCHANGED <<dsp, environ, phase, SAVE_UPLOADS, globals, clock, endpoint, upload, task,
                   logs, calls, store>>

\* A dispatch that looked at the flag alone.
PersistWhenFlagged == SAVE_UPLOADS

\* if SAVE_UPLOADS and supabase
ShouldPersist == SAVE_UPLOADS /\ supabase # None

\* The arguments create_task binds to save_prediction_to_supabase.
TaskArgs(r) ==
    [audio_bytes |-> r, filename |-> The(upload[r]),
     prediction |-> The(locals[r].prediction_value),
     top_3 |-> The(locals[r].top_3),
     probabilities |-> The(locals[r].proba_list),
     storage_filename |-> locals[r].storage_filename]

\* A scheduling failure that reached the handler's outer except clause.
ScheduleFailedSurfaced(r) ==
    /\ Fail(r, 500, Detail("Prediction failed", <<>>))
    /\ UNCHANGED logs

\* except Exception around create_task: a warning is printed and the
\* handler goes on to its response, past the signed-URL call.
ScheduleFailed(r) ==
    /\ logs' = [logs EXCEPT ![r] = @ \cup {"schedule_failed"}]
    /\ Goto(r, "respond")

\* A dispatch that gave up the loop before the signed-URL call.
PersistYielding(r) ==
    /\ loop = Handler(r)
    /\ pc[r] = "persist"
    /\ IF ShouldPersist
       THEN \E scheduled \in BOOLEAN :
              IF scheduled
              THEN /\ task' = [task EXCEPT ![r].st = "scheduled",
                                           ![r].args = Some(TaskArgs(r))]
                   /\ pc' = [pc EXCEPT ![r] = "sign"]
                   /\ loop' = Free
                   /\ UNCHANGED <<resp, logs>>
              ELSE /\ ScheduleFailed(r)
                   /\ UNCHANGED task
       ELSE /\ Goto(r, "respond")
            /\ UNCHANGED <<task, logs>>
    /\ UNCHANGED <<dsp, environ, phase, SAVE_UPLOADS, globals, clock, endpoint, upload, locals,
                   calls, store>>

\* asyncio.create_task and add_done_callback.
Persist(r) ==
    /\ loop = Handler(r)
    /\ pc[r] = "persist"
    /\ IF ShouldPersist
       THEN \E scheduled \in BOOLEAN :
              IF scheduled
              THEN /\ task' = [task EXCEPT ![r].st = "scheduled",
                                           ![r].args = Some(TaskArgs(r))]
                   /\ Goto(r, "sign")
                   /\ UNCHANGED logs
              ELSE /\ ScheduleFailed(r)
                   /\ UNCHANGED task
       ELSE /\ Goto(r, "respond")
            /\ UNCHANGED <<task, logs>>
    /\ UNCHANGED <<dsp, environ, phase, SAVE_UPLOADS, globals, clock, endpoint, upload, locals,
                   calls, store>>

\* What create_signed_url may answer: a URL, an answer without one, or an
\* exception.
SignedOutcomes == {"url", "empty", "raise"}

\* signed.get("signedURL") or ...: the URL of the answer, None without one.
SignedUrl(outcome, name) ==
    IF outcome = "url" THEN Some(<<"signed", name>>) ELSE None

\* A signed-URL failure that reached the handler's outer except clause.
SignRaisedSurfaced(r) ==
    /\ Fail(r, 500, Detail("Prediction failed", <<>>))
    /\ UNCHANGED locals

\* except Exception around create_signed_url: signed_url = None.
SignRaised(r) ==
    /\ locals' = [locals EXCEPT ![r].signed_for = locals[r].storage_filename,
                                ![r].signed_url = None]
    /\ Goto(r, "respond")

\* The best-effort signed URL of the handler.
Sign(r) ==
    /\ loop = Handler(r)
    /\ pc[r] = "sign"
    /\ calls' = [calls EXCEPT ![r] = @ \cup {"create_signed_url"}]
    /\ \E outcome \in SignedOutcomes :
         IF outcome = "raise"
         THEN SignRaised(r)
         ELSE /\ locals' = [locals EXCEPT
                    ![r].signed_for = locals[r].storage_filename,
                    ![r].signed_url =
                        SignedUrl(outcome, The(locals[r].storage_filename))]
              /\ Goto(r, "respond")
    /\ UNCHANGED <<dsp, environ, phase, SAVE_UPLOADS, globals, clock, endpoint, upload, task,
                   logs, store>>

\* A response that never names the stored file.
ResponseFilenameOmitted(storage_filename) == None

\* filename=storage_filename if SAVE_UPLOADS and supabase else None
ResponseFilename(storage_filename) ==
    IF SAVE_UPLOADS /\ supabase # None THEN storage_filename ELSE None

\* A response that always states the validity window.
ResponseExpiresAlways(signed_url) == Some(SignedExpires)

\* signed_url_expires_in=signed_expires if signed_url else None
ResponseExpires(signed_url) ==
    IF signed_url # None THEN Some(SignedExpires) ELSE None

\* A handler that awaited the task it created before returning.
ReadyToRespondAfterTask(r) ==
    /\ loop = Handler(r)
    /\ pc[r] = "respond"
    /\ task[r].st \in {"none", "finished", "logged"}

\* The handler reaches its return statement: nothing before it awaits the
\* task it created.
ReadyToRespond(r) == loop = Handler(r) /\ pc[r] = "respond"

\* return PredictionResponse(...): the handler is over.
Respond(r) ==
    /\ ReadyToRespond(r)
    /\ resp' = [resp EXCEPT ![r] =
            PredictionResponse(locals[r].prediction_value, locals[r].top_3,
                               locals[r].proba_list,
                               ResponseFilename(locals[r].storage_filename),
                               locals[r].signed_url,
                               ResponseExpires(locals[r].signed_url))]
    /\ pc' = [pc EXCEPT ![r] = "returned"]
    /\ loop' = Free
    /\ UNCHANGED <<dsp, environ, phase, SAVE_UPLOADS, globals, clock, endpoint, upload, locals,
                   task, logs, calls, store>>

\* The server writes the response of a finished handler to the client.
Deliver(r) ==
    /\ pc[r] = "returned"
    /\ pc' = [pc EXCEPT ![r] = "sent"]
    /\ UNCHANGED <<dsp, environ, phase, SAVE_UPLOADS, globals, clock, loop, endpoint, upload,
                   locals, resp, task, logs, calls, store>>

\* A disconnection that cancelled the request's pending task.
DisconnectCancels(r) ==
    /\ pc[r] = "returned"
    /\ pc' = [pc EXCEPT ![r] = "dropped"]
    /\ task' = [task EXCEPT ![r] = IF @.st = "scheduled" THEN NoTask ELSE @]
    /\ UNCHANGED <<dsp, environ, phase, SAVE_UPLOADS, globals, clock, loop, endpoint, upload,
                   locals, resp, logs, calls, store>>

\* The client went away before the response could be written; no code of a
\* handler or of the task looks at the connection.
Disconnect(r) ==
    /\ pc[r] = "returned"
    /\ pc' = [pc EXCEPT ![r] = "dropped"]
    /\ UNCHANGED <<dsp, environ, phase, SAVE_UPLOADS, globals, clock, loop, endpoint, upload,
                   locals, resp, task, logs, calls, store>>

\* ------------------------------------- save_prediction_to_supabase (task)
\* _guess_content_type_from_ext, on the extension of a file name.
ContentType(ext) ==
    CASE Lower(ext) \in {".mp3", ".mpeg"} -> "audio/mpeg"
      [] Lower(ext) = ".wav" -> "audio/wav"
      [] Lower(ext) = ".flac" -> "audio/flac"
      [] Lower(ext) = ".ogg" -> "audio/ogg"
      [] Lower(ext) = ".m4a" -> "audio/mp4"
      [] Lower(ext) = ".aac" -> "audio/aac"
      [] Lower(ext) = ".wma" -> "audio/x-ms-wma"
      [] Lower(ext) = "" -> "application/octet-stream"
      [] OTHER -> "audio/ext"

\* A task that built the name again from its own clock.
TaskKeyRegenerated(args, now) ==
    StorageFilename(now, args.prediction, args.top_3, args.filename.ext)

\* The object key: the name the handler passed, generated here only when
\* none was passed.
TaskKey(args, now) ==
    IF args.storage_filename = None
    THEN StorageFilename(now, args.prediction, args.top_3, args.filename.ext)
    ELSE The(args.storage_filename)

\* The row of table "predictions".
Metadata(args, key, timestamp) ==
    [filename |-> key, original_filename |-> args.filename,
     prediction |-> args.prediction, top_3_predictions |-> args.top_3,
     all_probabilities |-> args.probabilities, timestamp |-> timestamp]

\* A task that went to the metadata insert first.
TaskBeginInsertFirst(r) ==
    /\ loop = Free
    /\ task[r].st = "scheduled"
    /\ IF supabase = None
       THEN /\ task' = [task EXCEPT ![r].st = "finished", ![r].result = "returned"]
            /\ UNCHANGED loop
       ELSE /\ task' = [task EXCEPT ![r].st = "insert", ![r].timestamp = Some(clock)]
            /\ loop' = Task(r)
    /\ UNCHANGED <<dsp, environ, phase, SAVE_UPLOADS, globals, clock, endpoint, pc, upload,
                   locals, resp, logs, calls, store>>

\* The task starts when the loop is free; without a client it returns at once.
TaskBegin(r) ==
    /\ loop = Free
    /\ task[r].st = "scheduled"
    /\ IF supabase = None
       THEN /\ task' = [task EXCEPT ![r].st = "finished", ![r].result = "returned"]
            /\ UNCHANGED loop
       ELSE /\ task' = [task EXCEPT ![r].st = "upload", ![r].timestamp = Some(clock)]
            /\ loop' = Task(r)
    /\ UNCHANGED <<dsp, environ, phase, SAVE_UPLOADS, globals, clock, endpoint, pc, upload,
                   locals, resp, logs, calls, store>>

\* A task that swallowed the upload's exception would go on to the insert.
AfterUploadSwallowed(ok) == "insert"

\* A task that tried the upload again after it failed.
AfterUploadRetried(ok) == IF ok THEN "insert" ELSE "upload"

\* After the upload: on to the insert, or RuntimeError("Storage upload
\* failed") out of the task.
AfterUpload(ok) == IF ok THEN "insert" ELSE "finished"

\* supabase.storage.from_(bucket).upload(path, file, file_options)
TaskUpload(r) ==
    /\ loop = Task(r)
    /\ task[r].st = "upload"
    /\ calls' = [calls EXCEPT ![r] = @ \cup {"upload"}]
    /\ \E ok \in BOOLEAN :
         LET args == The(task[r].args)
             key == TaskKey(args, clock)
             next == AfterUpload(ok)
         IN  /\ task' = [task EXCEPT
                    ![r].st = next,
                    ![r].uploads = @ + 1,
                    ![r].path = Some(key),
                    ![r].result = IF next = "finished" THEN "raised" ELSE @,
                    ![r].timestamp = IF next = "finished" THEN None ELSE @]
             /\ objects' = IF ok
                           THEN objects \cup {[path |-> key,
                                               content_type |-> ContentType(args.filename.ext)]}
                           ELSE objects
             /\ logs' = IF ok THEN [logs EXCEPT ![r] = @ \cup {"upload_ok"}] ELSE logs
             /\ loop' = IF next = "finished" THEN Free ELSE loop
    /\ UNCHANGED <<dsp, environ, phase, SAVE_UPLOADS, globals, clock, endpoint, pc, upload,
                   locals, resp, records, feedback>>

\* supabase.table("predictions").insert(metadata).execute(): a failure is
\* printed and the task returns normally.
TaskInsert(r) ==
    /\ loop = Task(r)
    /\ task[r].st = "insert"
    /\ calls' = [calls EXCEPT ![r] = @ \cup {"insert"}]
    /\ \E ok \in BOOLEAN :
         LET args == The(task[r].args)
             row == Metadata(args, TaskKey(args, clock), The(task[r].timestamp))
         IN  /\ records' = IF ok THEN records \cup {row} ELSE records
             /\ logs' = [logs EXCEPT ![r] = @ \cup {IF ok THEN "db_ok" ELSE "db_failed"}]
    /\ task' = [task EXCEPT ![r].st = "finished", ![r].inserts = @ + 1,
                            ![r].metadata =
                                Some(Metadata(The(task[r].args),
                                              TaskKey(The(task[r].args), clock),
                                              The(task[r].timestamp))),
                            ![r].result = "returned", ![r].timestamp = None]
    /\ loop' = Free
    /\ UNCHANGED <<dsp, environ, phase, SAVE_UPLOADS, globals, clock, endpoint, pc, upload,
                   locals, resp, objects, feedback>>

\* A callback that never looked at the task's outcome.
BgLineAlwaysCompleted(result) == "bg_completed"

\* What _log_bg_result prints for a finished task: task.result() re-raises
\* the task's exception.
BgLine(result) == IF result = "raised" THEN "bg_failed" ELSE "bg_completed"

\* The done-callback, called by the loop after the task has finished.
LogBgResult(r) ==
    /\ loop = Free
    /\ task[r].st = "finished"
    /\ logs' = [logs EXCEPT ![r] = @ \cup {BgLine(task[r].result)}]
    /\ task' = [task EXCEPT ![r].st = "logged"]
    /\ UNCHANGED <<dsp, environ, phase, SAVE_UPLOADS, globals, clock, loop, endpoint, pc,
                   upload, locals, resp, calls, store>>

\* ------------------------------------------------- the storage endpoints
\* The names a client asks for: the keys of the store, and one of no object.
AskedNames == {o.path : o \in objects} \cup
              {[stamp |-> 0, prediction |-> Label("str", 0), confidence |-> 0, ext |-> ".ogg"]}

StorageNotConfigured == HTTPException(503, Detail("Storage not configured", <<>>))

\* get_signed_url (sync): 503 without a client, 404 when no URL comes back.
SignedUrlReply(name, outcome) ==
    IF supabase = None THEN StorageNotConfigured
    ELSE IF SignedUrl(outcome, name) = None
    THEN HTTPException(404, Detail("Could not create signed URL", <<>>))
    ELSE [NoResponse EXCEPT !.status = 200, !.filename = Some(name),
                            !.signed_url = SignedUrl(outcome, name),
                            !.signed_url_expires_in = Some(SignedExpires)]

GetSignedUrl(r) ==
    /\ phase = "serving"
    /\ pc[r] = "idle"
    /\ \E name \in AskedNames, outcome \in SignedOutcomes :
         Answer(r, "get_signed_url", SignedUrlReply(name, outcome))
    /\ calls' = [calls EXCEPT ![r] =
                    IF supabase = None THEN @ ELSE @ \cup {"create_signed_url"}]
    /\ UNCHANGED <<dsp, environ, phase, SAVE_UPLOADS, globals, clock, loop, upload, locals, task,
                   logs, store>>

\* stream_audio: 503 without a client, 404 when the download raises.
StreamReply(name, found) ==
    IF supabase = None THEN StorageNotConfigured
    ELSE IF ~found THEN HTTPException(404, Detail("File not found", <<>>))
    ELSE [NoResponse EXCEPT !.status = 200, !.filename = Some(name),
                            !.media = Some(ContentType(name.ext))]

StreamAudio(r) ==
    /\ phase = "serving"
    /\ pc[r] = "idle"
    /\ loop = Free
    /\ \E name \in AskedNames, found \in BOOLEAN :
         Answer(r, "stream_audio", StreamReply(name, found))
    /\ calls' = [calls EXCEPT ![r] = IF supabase = None THEN @ ELSE @ \cup {"download"}]
    /\ UNCHANGED <<dsp, environ, phase, SAVE_UPLOADS, globals, clock, loop, upload, locals, task,
                   logs, store>>

\* submit_feedback: 503 without a client, 500 when the insert raises.
FeedbackReply(inserted) ==
    IF supabase = None
    THEN HTTPException(503, Detail("Feedback system not configured", <<>>))
    ELSE IF ~inserted
    THEN HTTPException(500, Detail("Failed to submit feedback", <<>>))
    ELSE [NoResponse EXCEPT !.status = 200]

\* The FeedbackRequest bodies a client posts: notes is optional.
FeedbackRequests ==
    { [filename |-> "stored.wav", predicted_species |-> "heard",
       actual_species |-> "seen", confidence |-> 87, notes |-> n] :
        n \in {None, Some("note")} }

\* A row that left the free-text note out.
FeedbackDataWithoutNotes(r, body) ==
    [request |-> r, filename |-> body.filename,
     predicted_species |-> body.predicted_species,
     actual_species |-> body.actual_species,
     confidence |-> body.confidence, notes |-> None, timestamp |-> clock]

\* feedback_data, the row of table "feedback"; `request` stands for the id
\* the table gives the row.
FeedbackData(r, body) ==
    [request |-> r, filename |-> body.filename,
     predicted_species |-> body.predicted_species,
     actual_species |-> body.actual_species,
     confidence |-> body.confidence, notes |-> body.notes, timestamp |-> clock]

\* A handler that dropped the storage client after a failed insert.
SubmitFeedbackDropsClient(r) ==
    /\ phase = "serving"
    /\ pc[r] = "idle"
    /\ loop = Free
    /\ \E body \in FeedbackRequests, inserted \in BOOLEAN :
         /\ upload' = [upload EXCEPT ![r] = Some(body)]
         /\ Answer(r, "submit_feedback", FeedbackReply(inserted))
         /\ feedback' = IF supabase # None /\ inserted
                        THEN feedback \cup {FeedbackData(r, body)} ELSE feedback
         /\ supabase' = IF inserted THEN supabase ELSE None
    /\ calls' = [calls EXCEPT ![r] =
                    IF supabase = None THEN @ ELSE @ \cup {"feedback_insert"}]
    /\ UNCHANGED <<dsp, environ, phase, SAVE_UPLOADS, model, scaler, feature_names, clock, loop,
                   locals, task, logs, objects, records>>

SubmitFeedback(r) ==
    /\ phase = "serving"
    /\ pc[r] = "idle"
    /\ loop = Free
    /\ \E body \in FeedbackRequests, inserted \in BOOLEAN :
         /\ upload' = [upload EXCEPT ![r] = Some(body)]
         /\ Answer(r, "submit_feedback", FeedbackReply(inserted))
         /\ feedback' = IF supabase # None /\ inserted
                        THEN feedback \cup {FeedbackData(r, body)} ELSE feedback
    /\ calls' = [calls EXCEPT ![r] =
                    IF supabase = None THEN @ ELSE @ \cup {"feedback_insert"}]
    /\ UNCHANGED <<dsp, environ, phase, SAVE_UPLOADS, globals, clock, loop, locals, task,
                   logs, objects, records>>

\* ------------------------------------------------------------------ Next
\* The steps of a handler the event loop schedules once the request is in.
HandlerStep(r) ==
    \/ Resume(r) \/ Decode(r) \/ Normalize(r) \/ Extract(r)
    \/ Order(r) \/ Scale(r) \/ PredictStep(r) \/ Persist(r) \/ Sign(r)
    \/ Respond(r)

TaskStep(r) == TaskBegin(r) \/ TaskUpload(r) \/ TaskInsert(r) \/ LogBgResult(r)

\* The service in the deployments `envs`, answering the requests `reqs`, the
\* audio requests uploading files named in `names`.
Service(envs, reqs, names) ==
    \/ LoadArtifacts(envs)
    \/ Tick
    \/ \E r \in reqs : Predict(r)
    \/ \E r \in reqs : GetSignedUrl(r)
    \/ \E r \in reqs : StreamAudio(r)
    \/ \E r \in reqs : SubmitFeedback(r)
    \/ \E r \in reqs : Receive(r, names)
    \/ \E r \in reqs : HandlerStep(r)
    \/ \E r \in reqs : TaskStep(r)
    \/ \E r \in reqs : Deliver(r)
    \/ \E r \in reqs : Disconnect(r)

\* Concurrent requests against the deployments of the service.
Next == Service(ServiceEnvs, Requests, UploadNames)
Spec == Init /\ [][Next]_vars

\* One request against every classifier.
ModelNext == Service(ModelEnvs, {1}, UploadNames)
ModelSpec == Init /\ [][ModelNext]_vars

\* One request, uploading a file of any of AllUploadNames.
UploadNext == Service(ServiceEnvs, {1}, AllUploadNames)
UploadSpec == Init /\ [][UploadNext]_vars

\* ----------------------------------------- preprocessing calls on their own
\* Sample rates and target durations (half seconds) of the followed calls.
SampleRates == 1..(TARGET_SR + 1)
Durations == 2..TARGET_DURATION

\* Scenario C: 40 seconds at one sample per second, sound in seconds 25-35.
BurstBuffer == [i \in 1..40 |-> IF i \in 26..35 THEN 1 ELSE 0]

\* Two-channel recordings: nine samples with sound on one channel, and three
\* samples.
StereoBuffers ==
    { Buffer(2, << [i \in 1..9 |-> IF i \in 4..6 THEN 1 ELSE 0], [i \in 1..9 |-> 0] >>),
      Buffer(2, << <<0, 0, 0>>, <<0, 0, 0>> >>),
      Buffer(2, << <<1, -1, 1>>, <<0, 1, 1>> >>) }

Call(fn, y, sr, target_duration) ==
    [fn |-> fn, pc |-> "call", y |-> y, sr |-> sr,
     target_duration |-> target_duration, out |-> None, again |-> None,
     features |-> None]

\* find_best_10s_window on every buffer of up to MaxSamples samples, and on
\* the buffer of scenario C; normalize_audio on every non-empty buffer.
WindowCalls ==
    { Call("find_best_10s_window", Mono(s), sr, d) :
        s \in Rows(MaxSamples), sr \in 1..TARGET_SR, d \in Durations }
    \cup { Call("find_best_10s_window", Mono(BurstBuffer), 1, 20) }
NormalizeCalls ==
    { Call("normalize_audio", y, sr, TARGET_DURATION) :
        y \in {Mono(s) : s \in Rows(MaxSamples) \ {<<>>}} \cup StereoBuffers,
        sr \in SampleRates }

\* standardize_duration on every buffer of up to MaxSamples samples: shorter
\* than, as long as and longer than the target.
StandardizeCalls ==
    { Call("standardize_duration", Mono(s), sr, d) :
        s \in Rows(MaxSamples), sr \in 1..TARGET_SR, d \in Durations }

\* Amplitudes whose quotient by any of their magnitudes, times the peak
\* level, is a whole number of hundredths: (y / max_val) * peak is then
\* computed without rounding.
Amplitudes == {-7, -2, -1, 0, 1, 2, 7}
PeakCalls ==
    { Call("peak_normalize", Mono(s), TARGET_SR, TARGET_DURATION) :
        s \in UNION {[1..k -> Amplitudes] : k \in 0..MaxPeakSamples} }

\* Two-dimensional buffers of every shape up to MaxAxis by MaxAxis, the
\* sample at [a][b] telling its row, its column, or both.
Shaped(rows, cols, pattern) ==
    Buffer(2, [a \in 1..rows |-> [b \in 1..cols |->
        CASE pattern = "row" -> a
          [] pattern = "column" -> b
          [] OTHER -> a * b - 4]])
MonoCalls ==
    { Call("to_mono", Shaped(rows, cols, pattern), TARGET_SR, TARGET_DURATION) :
        rows \in 1..MaxAxis, cols \in 1..MaxAxis,
        pattern \in {"row", "column", "both"} }
    \cup { Call("to_mono", Mono(s), TARGET_SR, TARGET_DURATION) : s \in Rows(MaxPeakSamples) }

DspInit ==
    /\ ServiceInit
    /\ environ = [SUPABASE_URL |-> FALSE, SUPABASE_KEY |-> FALSE]
    /\ dsp \in WindowCalls \cup NormalizeCalls \cup StandardizeCalls
                \cup PeakCalls \cup MonoCalls

FindBest10sWindowCall ==
    /\ dsp.fn = "find_best_10s_window" /\ dsp.pc = "call"
    /\ dsp' = [dsp EXCEPT !.pc = "return",
                 !.out = Some([y |-> FindBest10sWindow(ToMono(dsp.y), dsp.sr,
                                                        dsp.target_duration),
                               sr |-> dsp.sr])]
    /\ UNCHANGED <<phase, SAVE_UPLOADS, environ, globals, clock, loop, reqvars,
                   store>>

NormalizeAudioCall ==
    /\ dsp.fn = "normalize_audio" /\ dsp.pc = "call"
    /\ \E yt \in Trims(ToMono(dsp.y)) :
         dsp' = [dsp EXCEPT !.pc = "return",
                            !.out = Some(NormalizeAudio(dsp.y, dsp.sr, yt))]
    /\ UNCHANGED <<phase, SAVE_UPLOADS, environ, globals, clock, loop, reqvars,
                   store>>

\* extract_audio_features on the normalized buffer.
ExtractAudioFeaturesCall ==
    /\ dsp.fn = "normalize_audio" /\ dsp.pc = "return"
    /\ dsp' = [dsp EXCEPT !.fn = "extract_audio_features",
                          !.features = Some(ExtractAudioFeatures)]
    /\ UNCHANGED <<phase, SAVE_UPLOADS, environ, globals, clock, loop, reqvars,
                   store>>

StandardizeDurationCall ==
    /\ dsp.fn = "standardize_duration" /\ dsp.pc = "call"
    /\ dsp' = [dsp EXCEPT !.pc = "return",
                 !.out = Some([y |-> StandardizeDuration(dsp.y.ch[1], dsp.sr,
                                                          dsp.target_duration),
                               sr |-> dsp.sr])]
    /\ UNCHANGED <<phase, SAVE_UPLOADS, environ, globals, clock, loop, reqvars,
                   store>>

\* standardize_duration on the buffer it returned.
StandardizeDurationAgain ==
    /\ dsp.fn = "standardize_duration" /\ dsp.pc = "return"
    /\ dsp' = [dsp EXCEPT !.pc = "again",
                 !.again = Some(StandardizeDuration(The(dsp.out).y, dsp.sr,
                                                    dsp.target_duration))]
    /\ UNCHANGED <<phase, SAVE_UPLOADS, environ, globals, clock, loop, reqvars,
                   store>>

PeakNormalizeCall ==
    /\ dsp.fn = "peak_normalize" /\ dsp.pc = "call"
    /\ dsp' = [dsp EXCEPT !.pc = "return",
                 !.out = Some([y |-> PeakNormalize(dsp.y.ch[1], PEAK_LEVEL),
                               sr |-> dsp.sr])]
    /\ UNCHANGED <<phase, SAVE_UPLOADS, environ, globals, clock, loop, reqvars,
                   store>>

ToMonoCall ==
    /\ dsp.fn = "to_mono" /\ dsp.pc = "call"
    /\ dsp' = [dsp EXCEPT !.pc = "return",
                          !.out = Some([y |-> ToMono(dsp.y), sr |-> dsp.sr])]
    /\ UNCHANGED <<phase, SAVE_UPLOADS, environ, globals, clock, loop, reqvars,
                   store>>

DspNext ==
    \/ FindBest10sWindowCall \/ NormalizeAudioCall \/ ExtractAudioFeaturesCall
    \/ StandardizeDurationCall \/ StandardizeDurationAgain
    \/ PeakNormalizeCall \/ ToMonoCall
DspSpec == DspInit /\ [][DspNext]_vars

\* Progress is followed where a task can be dispatched: with both
\* credentials in the environment (the flag and create_client stay free).
FairInit ==
    /\ ServiceInit
    /\ environ = [SUPABASE_URL |-> TRUE, SUPABASE_KEY |-> TRUE]
    /\ dsp = NoCall

\* The event loop runs a handler that is ready to run: file.read() completes
\* and every step up to the return is taken.  Nothing is assumed of the tasks.
HandlerFairSpec ==
    FairInit /\ [][Next]_vars /\ \A r \in Requests : WF_vars(HandlerStep(r))

\* The loop also runs every ready task and done-callback, and a storage call
\* made by a task returns or raises.
FairSpec ==
    /\ FairInit /\ [][Next]_vars
    /\ \A r \in Requests : WF_vars(HandlerStep(r)) /\ WF_vars(TaskStep(r))

\* ================================================================ claims
Produced(r) == pc[r] \in {"returned", "sent", "dropped"}
IsAudio(r) == endpoint[r] = "predict_from_audio"
TaskOver(r) == task[r].st \in {"finished", "logged"}
UploadFailed(r) == TaskOver(r) /\ task[r].result = "raised"
Stored(r) ==
    \E o \in objects : Some(o.path) = The(task[r].args).storage_filename

\* C1 as stated: in a persistence task the upload and the metadata insert
\* are each attempted once, whatever the outcome of the other; in particular
\* the insert is attempted after a failed upload.
C1_EachEffectAttempted ==
    \A r \in Requests :
        TaskOver(r) => task[r].uploads = 1 /\ task[r].inserts = 1

\* C1 amended: the upload is attempted once; the insert is attempted once
\* exactly when the upload succeeded, and not at all when it failed (the task
\* then ends with an exception); a failed insert leaves the uploaded object
\* in the store and the task ends normally.
C1_InsertOnlyAfterUpload ==
    \A r \in Requests :
        /\ task[r].uploads <= 1
        /\ task[r].inserts <= 1
        /\ TaskOver(r) =>
             /\ task[r].uploads = 1
             /\ (task[r].inserts = 1) <=> ("upload_ok" \in logs[r])
             /\ (task[r].inserts = 0) <=> (task[r].result = "raised")
             /\ "db_failed" \in logs[r] => Stored(r) /\ task[r].result = "returned"

\* A task whose upload failed and a task whose insert failed after its upload.
C1_Witness ==
    \E r1, r2 \in Requests :
        /\ UploadFailed(r1) /\ task[r1].st = "logged"
        /\ task[r2].st = "logged" /\ "db_failed" \in logs[r2]

\* C2 as stated: when the upload of an audio prediction fails, the response
\* is a success with prediction and top_3, its filename, signed_url and
\* signed_url_expires_in are null, and the failure is logged.
C2_StorageFieldsOmitted ==
    \A r \in Requests :
        UploadFailed(r) =>
            /\ resp[r].status = 200
            /\ resp[r].prediction # None /\ resp[r].top_3 # None
            /\ resp[r].filename = None
            /\ resp[r].signed_url = None
            /\ resp[r].signed_url_expires_in = None
            /\ task[r].st = "logged" => "bg_failed" \in logs[r]

\* C2 amended: when the upload fails, the response (built before the task
\* ran) is a success with prediction and top_3; filename is the generated
\* storage name, signed_url is what the signed-URL call gave, and
\* signed_url_expires_in is 900 exactly when signed_url is there; the
\* failure is logged by the done-callback.
C2_UploadFailureAfterResponse ==
    \A r \in Requests :
        UploadFailed(r) =>
            /\ resp[r].status = 200
            /\ resp[r].prediction # None /\ resp[r].top_3 # None
            /\ resp[r].filename # None
            /\ resp[r].filename = locals[r].storage_filename
            /\ resp[r].filename = The(task[r].args).storage_filename
            /\ resp[r].signed_url = locals[r].signed_url
            /\ resp[r].signed_url_expires_in =
                  (IF resp[r].signed_url = None THEN None ELSE Some(SignedExpires))
            /\ task[r].st = "logged" => "bg_failed" \in logs[r]

\* A logged upload failure of a request whose response carries a signed URL.
C2_Witness ==
    \E r \in Requests :
        /\ UploadFailed(r) /\ "bg_failed" \in logs[r]
        /\ resp[r].signed_url # None

\* C3: any two audio requests that dispatch persistence generate different
\* storage filenames, so no two tasks write to the same object key.
C3_DistinctStorageFilenames ==
    \A r1, r2 \in Requests :
        (r1 # r2 /\ task[r1].args # None /\ task[r2].args # None) =>
            The(task[r1].args).storage_filename # The(task[r2].args).storage_filename


IsPrediction(r) == endpoint[r] \in {"predict", "predict_from_audio"}
ShowsTopThree(r) ==
    IsPrediction(r) /\ resp[r].status = 200 /\ resp[r].top_3 # None
\* The class index of a top_3 entry.
IndexOf(entry) == entry.species.v

\* top holds min(3, classes) entries, each the label and the probability of
\* one class, no class twice, by non-increasing confidence, and no class left
\* out is more probable than one listed.
IsTopThree(top, m) ==
    /\ Len(top) = Min(3, m.n)
    /\ \A i \in 1..Len(top) :
         /\ IndexOf(top[i]) \in 1..m.n
         /\ top[i].species = Str(Classes(m)[IndexOf(top[i])])
         /\ top[i].confidence = m.proba[IndexOf(top[i])]
    /\ \A i, j \in 1..Len(top) :
         /\ i < j => top[i].confidence >= top[j].confidence
         /\ i # j => IndexOf(top[i]) # IndexOf(top[j])
    /\ \A c \in 1..m.n :
         (\A i \in 1..Len(top) : IndexOf(top[i]) # c) =>
             m.proba[c] <= top[Len(top)].confidence

\* Among entries of equal confidence the lower class index comes first.
LowerIndexFirst(top) ==
    \A i, j \in 1..Len(top) :
        (i < j /\ top[i].confidence = top[j].confidence) =>
            IndexOf(top[i]) < IndexOf(top[j])

\* C4 as stated: in both prediction endpoints top_3 holds min(3, classes)
\* entries pairing label and probability of a class, by non-increasing
\* confidence, and among equal probabilities the lower class index first.
C4_TiesByLowerIndex ==
    \A r \in Requests :
        ShowsTopThree(r) =>
            /\ IsTopThree(The(resp[r].top_3), The(model))
            /\ LowerIndexFirst(The(resp[r].top_3))

\* C4 amended: in both prediction endpoints top_3 holds min(3, classes)
\* entries pairing label and probability of a class, no class twice, by
\* non-increasing confidence, no omitted class more probable than a listed
\* one; the order among equal probabilities is not determined.
C4_TopThreeByConfidence ==
    \A r \in Requests :
        ShowsTopThree(r) => IsTopThree(The(resp[r].top_3), The(model))

\* An audio response over four classes whose top_3 lists two equally probable
\* classes, the higher index first.
C4_Witness ==
    \E r \in Requests :
        /\ IsAudio(r) /\ ShowsTopThree(r) /\ The(model).n = 4
        /\ ~LowerIndexFirst(The(resp[r].top_3))

\* C5: in predict and in predict_from_audio, when the model has no
\* predict_proba and model.predict answered, the response is a success with
\* the predicted label and with top_3 and probabilities null.
C5_ProbabilityOutputOptional ==
    \A r \in Requests :
        (/\ IsPrediction(r) /\ Produced(r)
         /\ locals[r].pred # None
         /\ ~The(model).hasProba) =>
            /\ resp[r].status = 200
            /\ resp[r].prediction = Some(PredictionValue(The(locals[r].pred)))
            /\ resp[r].top_3 = None
            /\ resp[r].probabilities = None

\* C6: once predict_from_audio has dispatched its task it returns its
\* response without the task having taken a step, even if no task ever runs
\* or completes; between the dispatch and the return the task is still only
\* scheduled.
C6_ResponseNeverWaits ==
    /\ [](\A r \in Requests :
            (pc[r] \in {"sign", "respond"}) => task[r].st \in {"none", "scheduled"})
    /\ \A r \in Requests :
         (pc[r] = "sign" /\ task[r].st = "scheduled")
            ~> (pc[r] = "returned" /\ resp[r].status = 200
                /\ task[r].st = "scheduled" /\ task[r].uploads = 0)

\* A response has been produced while the task it dispatched has not begun,
\* and the task of another request sits in its upload.
C6_Witness ==
    \E r1, r2 \in Requests :
        /\ Produced(r1) /\ resp[r1].status = 200 /\ task[r1].st = "scheduled"
        /\ task[r2].st = "upload"

\* C7: an audio request whose prediction was computed is answered with
\* status 200 and the prediction, top_3 and probabilities computed from the
\* model, whatever became of the scheduling, the signed-URL call, the upload
\* and the insert.
C7_StorageFailuresNotSurfaced ==
    \A r \in Requests :
        (IsAudio(r) /\ Produced(r) /\ locals[r].prediction_value # None) =>
            /\ resp[r].status = 200
            /\ resp[r].prediction =
                  Some(PredictionValue(Classes(The(model))[The(model).predIdx]))
            /\ resp[r].prediction = locals[r].prediction_value
            /\ resp[r].top_3 = locals[r].top_3
            /\ resp[r].top_3 # None
            /\ resp[r].probabilities = Some(The(model).proba)

\* Successful responses of a request whose scheduling failed and of one whose
\* signed-URL call raised, upload failed and was logged.
C7_Witness ==
    \E r1, r2 \in Requests :
        /\ resp[r1].status = 200 /\ "schedule_failed" \in logs[r1]
        /\ resp[r2].status = 200 /\ "bg_failed" \in logs[r2]
        /\ resp[r2].filename # None /\ resp[r2].signed_url = None

\* C8: an audio request that ends without a computed prediction ends with an
\* error response (400 or 500) carrying no field of a prediction; a request
\* with an error response has no task, no storage call and no log line; a
\* task exists only for a request whose prediction was computed.
C8_ErrorsBeforeDispatch ==
    \A r \in Requests :
        IsAudio(r) =>
            /\ (Produced(r) /\ locals[r].prediction_value = None) =>
                   resp[r].status \in {400, 500}
            /\ resp[r].status \notin {0, 200} =>
                   /\ Produced(r)
                   /\ resp[r] = HTTPException(resp[r].status, resp[r].detail)
                   /\ locals[r].prediction_value = None
                   /\ task[r] = NoTask
                   /\ calls[r] = {}
                   /\ logs[r] = {}
            /\ task[r].st # "none" =>
                   /\ locals[r].prediction_value # None
                   /\ resp[r].status \in {0, 200}

\* Persistence is on, the prediction stage failed, and the other request
\* dispatched its task and was answered.
C8_Witness ==
    \E r1, r2 \in Requests :
        /\ ShouldPersist
        /\ IsAudio(r1) /\ resp[r1].status = 500
        /\ resp[r1].detail.msg = "Prediction failed"
        /\ IsAudio(r2) /\ resp[r2].status = 200 /\ task[r2].st # "none"

\* C9: a dispatched task is never cancelled or re-armed, and it eventually
\* makes its one upload attempt, terminates and is logged by _log_bg_result,
\* also after the response was sent or the client went away.
C9_DispatchedTaskCompletes ==
    /\ [][\A r \in Requests :
            task[r].st # "none" =>
                /\ task'[r].st # "none"
                /\ task'[r].args = task[r].args
                /\ (task[r].st = "logged" => task'[r] = task[r])]_vars
    /\ \A r \in Requests :
         (task[r].st = "scheduled")
            ~> (/\ task[r].st = "logged" /\ task[r].uploads = 1
                /\ BgLine(task[r].result) \in logs[r])

\* The task of a request whose client went away has run and been logged.
C9_Witness ==
    \E r \in Requests :
        /\ pc[r] = "dropped" /\ task[r].st = "logged" /\ task[r].uploads = 1

\* C10: once the service is serving, no step (of any handler, of any task, of
\* the clock) changes model, scaler, feature_names or supabase, and the
\* startup hook does not run again.
C10_GlobalsReadOnly ==
    [][phase = "serving" => (phase' = "serving" /\ UNCHANGED globals)]_vars

\* Every kind of handler and a task have run: a logged task of an audio
\* request, next to an answered request of another endpoint.
C10_Witness ==
    \E r1, r2 \in Requests :
        /\ phase = "serving" /\ supabase # None
        /\ task[r1].st = "logged"
        /\ endpoint[r2] \in {"predict", "submit_feedback", "stream_audio",
                             "get_signed_url"}
        /\ resp[r2].status = 500

\* C11: in predict, a feature count that differs from the model's
\* n_features_in_ is answered 400 with a detail naming the expected and the
\* received count (26 and 10 for ten features), without scaler.transform or
\* model.predict being called; with equal counts there is no 400.
C11_DimensionChecked ==
    \A r \in Requests :
        (endpoint[r] = "predict" /\ Produced(r) /\ The(model).nFeaturesIn # None) =>
            LET expected == The(The(model).nFeaturesIn)
                got == The(locals[r].width)
            IN  /\ got # expected =>
                      /\ resp[r] = HTTPException(400,
                             Detail("Expected features, got", <<expected, got>>))
                      /\ locals[r].invoked = {}
                      /\ locals[r].pred = None
                /\ (expected = 26 /\ got = 10) => resp[r].detail.args = <<26, 10>>
                /\ got = expected => resp[r].status # 400

\* Ten features posted to the 26-feature model, answered 400.
C11_Witness ==
    \E r \in Requests :
        /\ endpoint[r] = "predict" /\ locals[r].width = Some(10)
        /\ The(model).nFeaturesIn = Some(NFeatures)
        /\ resp[r].status = 400 /\ resp[r].detail.args = <<NFeatures, 10>>

\* The reply that turns an upload away for its extension.
Unsupported(ext) ==
    HTTPException(400, Detail("Unsupported audio format", <<ext, AllowedExtensions>>))

\* C12: an upload whose extension, lower-cased, is none of .wav .mp3 .flac
\* .ogg .m4a .aac .wma is answered 400 with a detail naming the allowed
\* extensions, before anything is read, computed, scheduled or stored; an
\* upload whose lower-cased extension is listed is never answered that way.
C12_ExtensionChecked ==
    \A r \in Requests :
        (IsAudio(r) /\ upload[r] # None) =>
            LET ext == Lower(The(upload[r]).ext)
            IN  IF ext \in {".wav", ".mp3", ".flac", ".ogg", ".m4a", ".aac", ".wma"}
                THEN resp[r].detail.msg # "Unsupported audio format"
                ELSE /\ Produced(r)
                     /\ resp[r] = Unsupported(ext)
                     /\ resp[r].detail.args[2] =
                            {".wav", ".mp3", ".flac", ".ogg", ".m4a", ".aac", ".wma"}
                     /\ locals[r] = NoLocals
                     /\ task[r] = NoTask
                     /\ calls[r] = {} /\ logs[r] = {}

\* scan.bmp turned away, in a deployment that would persist.
C12_Witness ==
    \E r \in Requests :
        /\ IsAudio(r) /\ The(upload[r]).ext = ".bmp"
        /\ resp[r].status = 400 /\ pc[r] = "sent"
        /\ ShouldPersist

\* What a followed call of find_best_10s_window was given and returned.
WindowReturned == dsp.fn = "find_best_10s_window" /\ dsp.pc = "return"
GivenSamples == ToMono(dsp.y)
GivenWindow == WindowSamples(dsp.target_duration, dsp.sr)
Returned == The(dsp.out).y
\* The offsets k * sr at which a whole window lies in the buffer.
AlignedOffsets ==
    {o \in 0..(Len(GivenSamples) - GivenWindow) : o % dsp.sr = 0}
WindowAt(o) == SubSeq(GivenSamples, o + 1, o + GivenWindow)

\* C13: for a buffer longer than the window, find_best_10s_window returns the
\* window of int(target_duration * sr) samples at the smallest offset k * sr
\* whose RMS is maximal among the windows at such offsets, the earliest on a
\* tie; the buffer of scenario C gives the window that starts at second 25.
C13_EarliestLoudestWindow ==
    (WindowReturned /\ Len(GivenSamples) > GivenWindow) =>
        /\ Len(Returned) = GivenWindow
        /\ \E o \in AlignedOffsets :
             /\ Returned = WindowAt(o)
             /\ \A other \in AlignedOffsets :
                  /\ Rms(WindowAt(other)) <= Rms(WindowAt(o))
                  /\ other < o => Rms(WindowAt(other)) < Rms(WindowAt(o))
        /\ GivenSamples = BurstBuffer => Returned = SubSeq(BurstBuffer, 26, 35)

\* Two windows of different content tie for the maximum and the earlier one
\* was returned.
C13_Witness ==
    /\ WindowReturned /\ Len(GivenSamples) > GivenWindow
    /\ \E o1, o2 \in AlignedOffsets :
         /\ o1 < o2
         /\ Rms(WindowAt(o1)) = Rms(WindowAt(o2))
         /\ \A o \in AlignedOffsets : Rms(WindowAt(o)) <= Rms(WindowAt(o1))
         /\ WindowAt(o1) # WindowAt(o2)
         /\ Returned = WindowAt(o1)

\* C14: a buffer no longer than the window is returned unchanged by
\* find_best_10s_window, same samples and same length.
C14_ShortBufferUnchanged ==
    (WindowReturned /\ Len(GivenSamples) <= GivenWindow) =>
        Returned = GivenSamples /\ Len(Returned) = Len(GivenSamples)

\* A non-empty buffer shorter than the window came back as it was.
C14_Witness ==
    /\ WindowReturned
    /\ Len(GivenSamples) > 0 /\ Len(GivenSamples) < GivenWindow
    /\ Returned = GivenSamples

NormalizeReturned ==
    dsp.fn \in {"normalize_audio", "extract_audio_features"} /\ dsp.pc = "return"
Silent(samples) == \A i \in 1..Len(samples) : samples[i] = 0

\* C15: for every non-empty buffer and every sample rate normalize_audio
\* returns the target sample rate and a buffer of exactly target duration
\* times target rate samples; a silent input gives an all-zero output.
C15_NormalizedShape ==
    NormalizeReturned =>
        /\ The(dsp.out).sr = TARGET_SR
        /\ Len(Returned) = (TARGET_DURATION * TARGET_SR) \div 2
        /\ (\A c \in 1..Len(dsp.y.ch) : Silent(dsp.y.ch[c])) => Silent(Returned)

\* Three silent seconds at half the target rate came back as a silent buffer
\* of the target length.
C15_Witness ==
    /\ NormalizeReturned
    /\ dsp.y = Mono(<<0, 0, 0>>) /\ dsp.sr = 1 /\ dsp.sr # TARGET_SR
    /\ Silent(Returned) /\ Len(Returned) > 3

\* C16: the map of extract_audio_features has exactly 26 distinct keys, the
\* same for every buffer: centroid_mean, bandwidth_mean, rolloff_mean,
\* mfcc1_mean..mfcc13_mean, the std of MFCC 1, 3, 4, 5, 7, 8, 12, zcr_mean,
\* rms_mean, rms_std; they are the 26 names PredictionRequest documents.
C16_FeatureKeys ==
    dsp.features # None =>
        /\ DOMAIN The(dsp.features) =
              { <<"centroid", 0, "mean">>, <<"bandwidth", 0, "mean">>,
                <<"rolloff", 0, "mean">>, <<"zcr", 0, "mean">>,
                <<"rms", 0, "mean">>, <<"rms", 0, "std">> }
              \cup { <<"mfcc", i, "mean">> : i \in 1..13 }
              \cup { <<"mfcc", i, "std">> : i \in {1, 3, 4, 5, 7, 8, 12} }
        /\ Cardinality(DOMAIN The(dsp.features)) = 26
        /\ DOMAIN The(dsp.features) = SeqRange(DocumentedNames)
        /\ Len(DocumentedNames) = 26

\* The features of a normalized recording that is not silent.
C16_Witness ==
    /\ dsp.fn = "extract_audio_features" /\ dsp.features # None
    /\ ~Silent(Returned)

\* An audio request that went past the reordering of its features.
Reordered(r) ==
    /\ IsAudio(r) /\ feature_names # None
    /\ "extract" \in locals[r].invoked
    /\ pc[r] \notin {"extract", "order"}
    /\ resp[r].detail.msg # "Feature extraction failed"

\* C17: features_dict_to_array returns the vector of the extracted values of
\* the canonical names, in their order and of their number, whatever the
\* order of extraction, or fails when a canonical name is not in the map; in
\* predict_from_audio the failure is a 500 and neither the scaler nor the
\* model is called.
C17_CanonicalOrder ==
    \A r \in Requests :
        Reordered(r) =>
            LET names == The(feature_names)
                features == ExtractAudioFeatures
                X == FeaturesDictToArray(features, names)
            IN  IF \E i \in 1..Len(names) : names[i] \notin DOMAIN features
                THEN /\ X = None
                     /\ resp[r] = HTTPException(500, Detail("Feature ordering failed", <<>>))
                     /\ locals[r].invoked \cap {"transform", "predict"} = {}
                     /\ locals[r].pred = None
                     /\ task[r] = NoTask
                ELSE /\ X # None
                     /\ Len(The(X)) = Len(names)
                     /\ \A i \in 1..Len(names) : The(X)[i] = features[names[i]]
                     /\ locals[r].width = Some(Len(names))
                     /\ resp[r].detail.msg # "Feature ordering failed"

\* A feature file that names a feature the extractor does not compute: the
\* request ended with the ordering error.
C17_Witness ==
    \E r \in Requests :
        /\ Reordered(r) /\ feature_names = Some(DriftedNames)
        /\ resp[r].status = 500
        /\ resp[r].detail.msg = "Feature ordering failed"

\* C18: without feature_columns.json startup still completes (it fails only
\* when the model does not load); no audio request succeeds, one whose
\* upload was accepted and decoded ends with a 500 and none has a prediction
\* or a task; predict answers as it does with the file: 400 on a wrong
\* count, else the label whenever model.predict returned.
C18_MissingFeatureFile ==
    /\ [][(phase = "import" /\ phase' = "failed") => model' = None]_vars
    /\ [](\A r \in Requests :
            (phase = "serving" /\ feature_names = None /\ Produced(r)) =>
                /\ IsAudio(r) =>
                     /\ resp[r].status \in {400, 500}
                     /\ resp[r].status = 400 =>
                            resp[r].detail.msg \in {"Unsupported audio format",
                                                    "Failed to load audio file"}
                     /\ "extract" \in locals[r].invoked =>
                            resp[r].detail.msg \in {"Feature extraction failed",
                                                    "Feature names not loaded"}
                     /\ resp[r].prediction = None
                     /\ locals[r].invoked \cap {"transform", "predict"} = {}
                     /\ task[r] = NoTask /\ calls[r] = {}
                /\ endpoint[r] = "predict" =>
                     /\ resp[r].status = 400 <=>
                            DimensionMismatch(The(model), The(locals[r].width))
                     /\ locals[r].pred # None =>
                            /\ resp[r].status = 200
                            /\ resp[r].prediction =
                                  Some(PredictionValue(The(locals[r].pred)))
                     /\ resp[r].detail.msg # "Feature names not loaded")

\* The service is up without the file: an audio request ended with "Feature
\* names not loaded" and a feature-vector request got its prediction.
C18_Witness ==
    \E r1, r2 \in Requests :
        /\ phase = "serving" /\ feature_names = None
        /\ IsAudio(r1) /\ resp[r1].status = 500
        /\ resp[r1].detail.msg = "Feature names not loaded"
        /\ endpoint[r2] = "predict" /\ resp[r2].status = 200
        /\ resp[r2].top_3 # None

\* C19: with the flag set, a startup without URL or key, or whose
\* create_client raised, leaves no storage client; the service then serves,
\* and an audio request has no task, no storage call and no log line, and
\* when its prediction is computed it is answered 200 with filename,
\* signed_url and signed_url_expires_in null.
C19_FlagWithoutClient ==
    /\ (phase = "import" /\ SAVE_UPLOADS) =>
          \A e \in ServiceEnvs :
              (~e.url \/ ~e.key \/ ~e.created) => ClientAfterStartup(e) = None
    /\ \A r \in Requests :
          (phase = "serving" /\ SAVE_UPLOADS /\ supabase = None /\ IsAudio(r)) =>
              /\ task[r] = NoTask
              /\ calls[r] = {}
              /\ logs[r] = {}
              /\ (Produced(r) /\ locals[r].prediction_value # None) =>
                    /\ resp[r].status = 200
                    /\ resp[r].prediction = locals[r].prediction_value
                    /\ resp[r].filename = None
                    /\ resp[r].signed_url = None
                    /\ resp[r].signed_url_expires_in = None

\* The flag is set, there is no client, and an audio prediction was answered.
C19_Witness ==
    \E r \in Requests :
        /\ phase = "serving" /\ SAVE_UPLOADS /\ supabase = None
        /\ IsAudio(r) /\ pc[r] = "sent" /\ resp[r].status = 200
        /\ resp[r].filename = None

\* C20: in a response of predict_from_audio filename and signed_url are set
\* only with the flag set and a client configured; signed_url_expires_in is
\* 900 when signed_url is set and null when it is not; a request that made
\* the signed-URL call is answered 200 whatever the call did.
C20_StorageFields ==
    \A r \in Requests :
        (IsAudio(r) /\ Produced(r)) =>
            /\ (resp[r].filename # None \/ resp[r].signed_url # None) =>
                  SAVE_UPLOADS /\ supabase # None /\ resp[r].status = 200
            /\ resp[r].signed_url # None =>
                  resp[r].signed_url_expires_in = Some(900)
            /\ resp[r].signed_url = None => resp[r].signed_url_expires_in = None
            /\ resp[r].signed_url = locals[r].signed_url
            /\ "create_signed_url" \in calls[r] => resp[r].status = 200

\* The signed-URL call was made and gave no URL: the response is a success
\* that names the file and has neither URL nor validity window.
C20_Witness ==
    \E r \in Requests :
        /\ IsAudio(r) /\ Produced(r) /\ "create_signed_url" \in calls[r]
        /\ resp[r].status = 200 /\ resp[r].filename # None
        /\ resp[r].signed_url = None /\ resp[r].signed_url_expires_in = None

IsFeedback(r) == endpoint[r] = "submit_feedback"
FeedbackRowsOf(r) == {row \in feedback : row.request = r}

\* C21 as stated: with a storage client configured submit_feedback inserts
\* exactly one feedback record and returns success; without a client it
\* fails with 503 and inserts nothing.
C21_FeedbackAlwaysRecorded ==
    \A r \in Requests :
        IsFeedback(r) =>
            IF supabase # None
            THEN resp[r].status = 200 /\ Cardinality(FeedbackRowsOf(r)) = 1
            ELSE resp[r].status = 503 /\ FeedbackRowsOf(r) = {}

\* C21 amended: with a storage client configured submit_feedback attempts
\* exactly one insert of a record holding the posted filename, predicted
\* label, corrected label, confidence and note, and a timestamp; when the
\* insert succeeds that one record is stored and the answer is a success,
\* when it raises the answer is a 500 and nothing is stored; without a
\* client the answer is a 503 and no insert is attempted.
C21_FeedbackRecordedOrRefused ==
    \A r \in Requests :
        IsFeedback(r) =>
            IF supabase # None
            THEN /\ calls[r] = {"feedback_insert"}
                 /\ resp[r].status \in {200, 500}
                 /\ resp[r].status = 500 =>
                        /\ FeedbackRowsOf(r) = {}
                        /\ resp[r].detail.msg = "Failed to submit feedback"
                 /\ resp[r].status = 200 =>
                        /\ Cardinality(FeedbackRowsOf(r)) = 1
                        /\ \A row \in FeedbackRowsOf(r) :
                             LET body == The(upload[r]) IN
                             /\ row.filename = body.filename
                             /\ row.predicted_species = body.predicted_species
                             /\ row.actual_species = body.actual_species
                             /\ row.confidence = body.confidence
                             /\ row.notes = body.notes
                             /\ row.timestamp \in 0..clock
            ELSE /\ resp[r].status = 503
                 /\ resp[r].detail.msg = "Feedback system not configured"
                 /\ FeedbackRowsOf(r) = {}
                 /\ calls[r] = {}

\* With a client: a feedback with a note was recorded, and another one's
\* insert raised.
C21_Witness ==
    \E r1, r2 \in Requests :
        /\ IsFeedback(r1) /\ resp[r1].status = 200
        /\ \E row \in FeedbackRowsOf(r1) : row.notes = Some("note")
        /\ IsFeedback(r2) /\ resp[r2].status = 500 /\ FeedbackRowsOf(r2) = {}

\* The storage calls a persistence task and its handler make.
TaskCalls == {"create_signed_url", "upload", "insert"}

\* C22: a dispatched task attempts its upload at most once and its insert at
\* most once, whatever their outcomes: an attempt is never repeated and a
\* task that is over is never queued again; no step removes an object or a
\* record or rewrites one, and after a failed insert the object the task
\* uploaded is in the store.
C22_NoRetryNoRollback ==
    /\ [][/\ objects \subseteq objects'
          /\ records \subseteq records'
          /\ \A r \in Requests :
               /\ task'[r].uploads \in {task[r].uploads, task[r].uploads + 1}
               /\ task'[r].inserts \in {task[r].inserts, task[r].inserts + 1}
               /\ task'[r].uploads <= 1 /\ task'[r].inserts <= 1
               /\ TaskOver(r) => /\ TaskOver(r)'
                                 /\ task'[r].uploads = task[r].uploads
                                 /\ task'[r].inserts = task[r].inserts
                                 /\ calls'[r] = calls[r]]_vars
    /\ [](\A r \in Requests :
            /\ task[r].st # "none" => calls[r] \subseteq TaskCalls
            /\ "db_failed" \in logs[r] =>
                 /\ Stored(r)
                 /\ task[r].uploads = 1 /\ task[r].inserts = 1
                 /\ \A row \in records :
                      Some(row.filename) # The(task[r].args).storage_filename
                      \/ \E q \in Requests \ {r} :
                            /\ task[q].args # None
                            /\ The(task[q].args).storage_filename = Some(row.filename))

\* One task's upload failed and it ended there; another's insert failed
\* after its upload, and its object is in the store.
C22_Witness ==
    \E r1, r2 \in Requests :
        /\ task[r1].st = "logged" /\ task[r1].uploads = 1 /\ task[r1].inserts = 0
        /\ task[r2].st = "logged" /\ "db_failed" \in logs[r2] /\ Stored(r2)
        /\ task[r2].uploads = 1 /\ task[r2].inserts = 1

StandardizeReturned ==
    dsp.fn = "standardize_duration" /\ dsp.pc \in {"return", "again"}
GivenBuffer == dsp.y.ch[1]

\* C23: standardize_duration returns exactly int(target_seconds * sr)
\* samples: the first min(input length, target length) are the input's and
\* the rest are zero; a buffer of the target length comes back as it is, and
\* applying the function to its own result changes nothing.
C23_StandardizedDuration ==
    StandardizeReturned =>
        LET target_len == (dsp.target_duration * dsp.sr) \div 2 IN
        /\ Len(Returned) = target_len
        /\ \A i \in 1..target_len :
             Returned[i] = IF i <= Len(GivenBuffer) THEN GivenBuffer[i] ELSE 0
        /\ Len(GivenBuffer) = target_len => Returned = GivenBuffer
        /\ dsp.pc = "again" => The(dsp.again) = Returned

\* A buffer with sound, shorter than the target, was padded, and the second
\* application returned the padded buffer.
C23_Witness ==
    /\ StandardizeReturned /\ dsp.pc = "again"
    /\ GivenBuffer = <<1, -1, 1>> /\ Len(Returned) = 4
    /\ Returned[4] = 0 /\ The(dsp.again) = Returned

PeakReturned == dsp.fn = "peak_normalize" /\ dsp.pc = "return"

\* C24: peak_normalize never returns a sample above the peak level in
\* magnitude; for a buffer with a non-zero sample the largest magnitude of
\* the output is the peak level, every sample keeps its sign and the ratios
\* between samples are those of the input; an all-zero or empty buffer comes
\* back unchanged.
C24_PeakBounded ==
    PeakReturned =>
        /\ Len(Returned) = Len(GivenBuffer)
        /\ \A i \in 1..Len(Returned) : Abs(Returned[i]) <= PEAK_LEVEL
        /\ IF \E i \in 1..Len(GivenBuffer) : GivenBuffer[i] # 0
           THEN /\ \E i \in 1..Len(Returned) : Abs(Returned[i]) = PEAK_LEVEL
                /\ \A i \in 1..Len(Returned) :
                     /\ Returned[i] * GivenBuffer[i] >= 0
                     /\ (Returned[i] = 0) <=> (GivenBuffer[i] = 0)
                /\ \A i, j \in 1..Len(Returned) :
                     Returned[i] * GivenBuffer[j] = Returned[j] * GivenBuffer[i]
           ELSE Returned = GivenBuffer

\* A buffer whose largest magnitude is a negative sample was scaled.
C24_Witness ==
    /\ PeakReturned
    /\ GivenBuffer = <<-7, 2, 0>>
    /\ Returned = <<-PEAK_LEVEL, 28, 0>>

MonoReturned == dsp.fn = "to_mono" /\ dsp.pc = "return"
\* v is the mean of the samples s, rounded down.
IsMean(v, s) == Len(s) * v <= SumSeq(s) /\ SumSeq(s) < Len(s) * v + Len(s)
Column(y, i) == [c \in 1..Len(y.ch) |-> y.ch[c][i]]

\* C25: to_mono returns a one-dimensional buffer as it is; a buffer of shape
\* (a, b) is averaged over its first axis, giving b samples, exactly when
\* a <= 8 and b > 8, and over its last axis, giving a samples, otherwise.
C25_ToMonoAxis ==
    MonoReturned =>
        LET a == Len(dsp.y.ch)
            b == Len(dsp.y.ch[1])
        IN  IF dsp.y.ndim = 1 THEN Returned = dsp.y.ch[1]
            ELSE IF a <= 8 /\ b > 8
            THEN /\ Len(Returned) = b
                 /\ \A i \in 1..b : IsMean(Returned[i], Column(dsp.y, i))
            ELSE /\ Len(Returned) = a
                 /\ \A c \in 1..a : IsMean(Returned[c], dsp.y.ch[c])

\* Two channels of five samples each came back as two samples, each the
\* mean of a channel.
C25_Witness ==
    /\ MonoReturned
    /\ dsp.y = Shaped(2, 5, "column")
    /\ Returned = <<3, 3>>

ObjectKeys == {Some(o.path) : o \in objects}

\* C26: a task attempts its insert only after its own upload has returned
\* without an exception, never the other way round; so every record of
\* table predictions was inserted by a task whose upload succeeded, under
\* the name that task uploaded to.
C26_InsertAfterUpload ==
    /\ [][\A r \in Requests :
            /\ task'[r].inserts > task[r].inserts =>
                 /\ task[r].uploads = 1
                 /\ "upload_ok" \in logs[r]
                 /\ task[r].path \in ObjectKeys
            /\ task'[r].uploads > task[r].uploads => task[r].inserts = 0]_vars
    /\ [](\A row \in records :
            \E r \in Requests :
                /\ task[r].metadata = Some(row)
                /\ "upload_ok" \in logs[r]
                /\ task[r].path = Some(row.filename)
                /\ Some(row.filename) \in ObjectKeys)

\* A record is in the table, written by a task after its upload, next to a
\* task whose upload failed and that attempted no insert.
C26_Witness ==
    \E r1, r2 \in Requests :
        /\ task[r1].st = "logged" /\ "db_ok" \in logs[r1]
        /\ The(task[r1].metadata) \in records
        /\ UploadFailed(r2) /\ task[r2].inserts = 0 /\ task[r2].metadata = None

\* C27: the handler issues its signed-URL call while the task it created is
\* still only scheduled (no upload attempted, no path used), it produces its
\* response before the task takes its first step, and the task takes that
\* step only after the signed-URL call was made.
C27_SignedBeforeTaskRuns ==
    [][\A r \in Requests :
         /\ (pc[r] = "sign" /\ calls'[r] # calls[r]) =>
               /\ task[r].st = "scheduled" /\ task'[r].st = "scheduled"
               /\ task[r].uploads = 0 /\ task[r].path = None
               /\ "upload" \notin calls'[r]
         /\ (IsAudio(r) /\ resp'[r] # resp[r] /\ task[r].st # "none") =>
               task'[r].st = "scheduled" /\ task'[r].uploads = 0
         /\ (task[r].st = "scheduled" /\ task'[r].st # "scheduled") =>
               /\ Produced(r)
               /\ locals[r].signed_for = locals[r].storage_filename
               /\ "create_signed_url" \in calls[r]]_vars

\* A handler has made its signed-URL call and stands at its return with its
\* task still scheduled, while the task of an earlier request has uploaded.
C27_Witness ==
    \E r1, r2 \in Requests :
        /\ pc[r1] = "respond" /\ task[r1].st = "scheduled"
        /\ locals[r1].signed_for # None
        /\ task[r2].st = "logged" /\ "upload_ok" \in logs[r2]

\* C28: the name generated by the handler is the one it passes to the
\* signed-URL call and to the task and returns as filename; the task uploads
\* to that name and inserts it as the record's filename; once generated it
\* never changes.
C28_OneStorageName ==
    /\ [][\A r \in Requests :
            locals[r].storage_filename # None =>
                locals'[r].storage_filename = locals[r].storage_filename]_vars
    /\ [](\A r \in Requests :
            (IsAudio(r) /\ task[r].args # None) =>
                LET name == locals[r].storage_filename IN
                /\ name # None
                /\ The(task[r].args).storage_filename = name
                /\ locals[r].signed_for # None => locals[r].signed_for = name
                /\ locals[r].signed_url # None =>
                      locals[r].signed_url = Some(<<"signed", The(name)>>)
                /\ Produced(r) =>
                      /\ resp[r].filename = name
                      /\ resp[r].signed_url = locals[r].signed_url
                /\ task[r].path # None => task[r].path = name
                /\ task[r].metadata # None =>
                      Some(The(task[r].metadata).filename) = name)

\* The clock moved on between the handler and its task, and response, signed
\* URL, object and record all carry the handler's name.
C28_Witness ==
    \E r \in Requests :
        /\ task[r].st = "logged" /\ "db_ok" \in logs[r]
        /\ The(locals[r].storage_filename).stamp = 0 /\ clock = 1
        /\ The(task[r].metadata).timestamp = 1
        /\ resp[r].signed_url # None
        /\ resp[r].filename = task[r].path

\* C29: the done-callback prints one line for a task: that the save failed
\* exactly when the task's upload raised, that it completed otherwise, also
\* when the insert failed after the upload (the task then ended without an
\* exception).
C29_CallbackReportsUpload ==
    \A r \in Requests :
        /\ logs[r] \cap {"bg_failed", "bg_completed"} # {} => task[r].st = "logged"
        /\ task[r].st = "logged" =>
             /\ "bg_failed" \in logs[r] <=>
                    (task[r].uploads = 1 /\ "upload_ok" \notin logs[r])
             /\ "bg_completed" \in logs[r] <=> "bg_failed" \notin logs[r]
             /\ "db_failed" \in logs[r] =>
                    /\ "bg_completed" \in logs[r]
                    /\ task[r].result = "returned"

\* One task was reported as completed after its insert failed, another as
\* failed after its upload raised.
C29_Witness ==
    \E r1, r2 \in Requests :
        /\ task[r1].st = "logged" /\ {"db_failed", "bg_completed"} \subseteq logs[r1]
        /\ task[r2].st = "logged" /\ "bg_failed" \in logs[r2]
        /\ "upload" \in calls[r2] /\ "insert" \notin calls[r2]

StorageEndpoints == {"submit_feedback", "stream_audio", "get_signed_url"}

====
